---------------------------- MODULE Spec2Model ----------------------------
(***************************************************************************)
(* Model of the analysis core of the CV scorer (backend/ats/scorer.py).    *)
(*                                                                         *)
(* Text is a sequence of characters; a character is a one-letter string,   *)
(* or a name for a character that has no printable letter ("TAB", "CR",    *)
(* "LF", "NBSP", "ENDASH", "EMDASH").  Positions are Python's: 0-based,    *)
(* a span (s, e) covers the characters s+1..e of the TLA+ sequence.        *)
(***************************************************************************)
EXTENDS Integers, Sequences, FiniteSets, TLC

VARIABLES
    pc,         \* which call has been made
    nText,      \* normalize: the argument
    nOut,       \* normalize(nText)
    nAgain,     \* normalize(normalize(nText))
    fCfg,       \* flatten_keywords: the argument d
    fOut,       \* flatten_keywords(fCfg)
    mText,      \* count_matches: the argument text
    mTerms,     \* count_matches: the argument terms
    mOut,       \* count_matches(mText, mTerms), [matched, missing]
    aText,      \* ats_score: the argument cv_text
    aIndustry,  \* ats_score: the argument industry
    aLang,      \* ats_score: the argument lang_cfg
    aProf,      \* ats_score: the argument prof_cfg
    aInd,       \* ats_score: the argument ind_cfg
    report,     \* the report ats_score returned
    args,       \* the arguments of a call of one of the other functions
    result      \* what that call returned

normVars == <<nText, nOut, nAgain>>

flatVars == <<fCfg, fOut>>

matchVars == <<mText, mTerms, mOut>>

atsArgs == <<aText, aIndustry, aLang, aProf, aInd>>

atsVars == <<atsArgs, report>>

callVars == <<args, result>>

vars == <<pc, normVars, flatVars, matchVars, atsVars, callVars>>

----------------------------------------------------------------------------
(* Bounds of the input sets *)

MaxTextLen == 4

MaxNodes == 4

MaxMatchLen == 3

MaxTerms == 3

MaxCvLen == 3

MaxRdLen == 6

MaxSpellWords == 2

\* how far the stress configurations go beyond the caps of the score
Over == 1

----------------------------------------------------------------------------
(* Characters *)

UpperAZ == <<"A","B","C","D","E","F","G","H","I","J","K","L","M",
             "N","O","P","Q","R","S","T","U","V","W","X","Y","Z">>

LowerAZ == <<"a","b","c","d","e","f","g","h","i","j","k","l","m",
             "n","o","p","q","r","s","t","u","v","w","x","y","z">>

Digits == {"0","1","2","3","4","5","6","7","8","9"}

Range(s) == {s[i] : i \in DOMAIN s}

Min(a, b) == IF a < b THEN a ELSE b

Max(a, b) == IF a > b THEN a ELSE b

UpperSet == Range(UpperAZ)

LowerSet == Range(LowerAZ)

\* the lower-case letter of every upper-case letter
LowerOf == [c \in UpperSet |-> LowerAZ[CHOOSE i \in DOMAIN UpperAZ : UpperAZ[i] = c]]

\* str.lower() on one character
LowerChar(c) == IF c \in UpperSet THEN LowerOf[c] ELSE c

\* str.lower()
Lower(s) == [i \in DOMAIN s |-> LowerChar(s[i])]

\* [v.lower() for v in vs]
Lower2(vs) == [i \in DOMAIN vs |-> Lower(vs[i])]

SpaceChars == {" ", "TAB", "CR", "LF", "NBSP"}

\* \s of the re module (and what str.strip() strips)
IsSpace(c) == c \in SpaceChars

WordChars == UpperSet \cup LowerSet \cup Digits \cup {"_"}

\* \w of the re module on str patterns
IsWord(c) == c \in WordChars

AllowedChars ==
    LowerSet \cup Digits \cup {"%", "$", "+", "-", "/", ".", ",", "(", ")"}
    \cup SpaceChars

\* the characters normalize keeps: [a-z0-9%$+\-/.,()\s]
IsAllowed(c) == c \in AllowedChars

\* re.sub of the characters of the set S by one character
SubChars(S, by, s) == [i \in DOMAIN s |-> IF s[i] \in S THEN by ELSE s[i]]

\* re.sub of the characters outside the set S by one character
SubOthers(S, by, s) == [i \in DOMAIN s |-> IF s[i] \in S THEN s[i] ELSE by]

RECURSIVE CollapseFrom(_, _)
CollapseFrom(s, i) ==
    IF i > Len(s) THEN <<>>
    ELSE IF IsSpace(s[i])
         THEN IF i > 1 /\ IsSpace(s[i-1])
              THEN CollapseFrom(s, i + 1)
              ELSE <<" ">> \o CollapseFrom(s, i + 1)
         ELSE <<s[i]>> \o CollapseFrom(s, i + 1)

\* re.sub(r"\s+", " ", s)
CollapseWs(s) == CollapseFrom(s, 1)

\* str.strip()
Strip(s) ==
    LET solid == {i \in DOMAIN s : ~IsSpace(s[i])}
    IN  IF solid = {} THEN <<>>
        ELSE LET lo == CHOOSE i \in solid : \A j \in solid : i <= j
                 hi == CHOOSE i \in solid : \A j \in solid : j <= i
             IN  SubSeq(s, lo, hi)

\* [\t\r]
TabCr == {"TAB", "CR"}

\* the en dash and the em dash
Dashes == {"ENDASH", "EMDASH"}

\* a variant that collapses whitespace before filtering the characters
normalize_FilterLast(text) ==
    LET t1 == Lower(text)
        t2 == SubChars(TabCr, " ", t1)
        t3 == SubChars(Dashes, "-", t2)
        t4 == CollapseWs(t3)
        t5 == SubOthers(AllowedChars, " ", t4)
    IN  Strip(t5)

normalize(text) ==
    LET t1 == Lower(text)
        t2 == SubChars(TabCr, " ", t1)
        t3 == SubChars(Dashes, "-", t2)
        t4 == SubOthers(AllowedChars, " ", t3)
        t5 == CollapseWs(t4)
    IN  Strip(t5)

----------------------------------------------------------------------------
(* flatten_keywords.  A configuration value is a node: a string, a list of *)
(* nodes, or a mapping, whose i-th entry has the key keys[i] and the value *)
(* kids[i].                                                                *)

StrNode(s) == [kind |-> "str", str |-> s, keys |-> <<>>, kids |-> <<>>]

ListNode(kids) == [kind |-> "list", str |-> <<>>, keys |-> <<>>, kids |-> kids]

DictNode(keys, kids) == [kind |-> "dict", str |-> <<>>, keys |-> keys, kids |-> kids]

RECURSIVE rec(_), recEach(_, _)

\* the inner function rec: the strings appended to out while walking x
rec(x) ==
    IF x.kind = "dict" THEN recEach(x.kids, 1)
    ELSE IF x.kind = "list" THEN recEach(x.kids, 1)
    ELSE IF x.kind = "str" THEN <<x.str>>
    ELSE <<>>

recEach(kids, i) ==
    IF i > Len(kids) THEN <<>> ELSE rec(kids[i]) \o recEach(kids, i + 1)

\* n = re.sub(r"\s+", " ", k.strip().lower())
KeyNorm(k) == CollapseWs(Lower(Strip(k)))

\* a variant that remembers the raw strings it has seen, not the normalized
DedupeKey_Raw(k) == k

\* what the loop adds to seen for the string k
DedupeKey(k) == KeyNorm(k)

RECURSIVE DedupeFrom(_, _, _)
DedupeFrom(out, i, seen) ==
    IF i > Len(out) THEN <<>>
    ELSE LET n == KeyNorm(out[i])
         IN  IF n # <<>> /\ DedupeKey(out[i]) \notin seen
             THEN <<n>> \o DedupeFrom(out, i + 1, seen \cup {DedupeKey(out[i])})
             ELSE DedupeFrom(out, i + 1, seen)

flatten_keywords(d) == DedupeFrom(rec(d), 1, {})

----------------------------------------------------------------------------
(* count_matches *)

\* the characters lit stand in text at the 0-based position i
LitAt(text, lit, i) ==
    /\ i + Len(lit) <= Len(text)
    /\ \A k \in DOMAIN lit : text[i + k] = lit[k]

\* (\W|$) tried at the 0-based position j: the end of the match, or -1
TailEnd(text, j) ==
    IF j < Len(text) /\ ~IsWord(text[j + 1]) THEN j + 1
    ELSE IF j = Len(text) THEN j
    ELSE -1

\* (^|\W) lit (\W|$) tried at the 0-based position i: the end of the match,
\* or -1.  The alternative ^ is tried before \W.
BoundedAt(text, lit, i) ==
    LET viaStart == IF i = 0 /\ LitAt(text, lit, 0)
                    THEN TailEnd(text, Len(lit)) ELSE -1
        viaNonWord == IF i < Len(text) /\ ~IsWord(text[i + 1])
                         /\ LitAt(text, lit, i + 1)
                      THEN TailEnd(text, i + 1 + Len(lit)) ELSE -1
    IN  IF viaStart # -1 THEN viaStart ELSE viaNonWord

\* a variant that looks for the term anywhere in the text
BoundedSearch_Substring(text, t) == \E i \in 0..Len(text) : LitAt(text, t, i)

\* re.search(r"(^|\W)" + re.escape(t) + r"(\W|$)", text)
BoundedSearch(text, t) == \E i \in 0..Len(text) : BoundedAt(text, t, i) # -1

\* a variant whose missing.append is not under the else
count_matches_MissingAll(text, terms) ==
    [matched |-> SelectSeq(terms, LAMBDA t : BoundedSearch(text, t)),
     missing |-> terms]

count_matches(text, terms) ==
    [matched |-> SelectSeq(terms, LAMBDA t : BoundedSearch(text, t)),
     missing |-> SelectSeq(terms, LAMBDA t : ~BoundedSearch(text, t))]

----------------------------------------------------------------------------
(* Dictionaries.  The three configuration documents and the rule objects   *)
(* have the keys the code names: each is a function whose DOMAIN is the    *)
(* set of keys present.  A dictionary keyed by configuration data (action  *)
(* verb categories, industries, replacement phrases, quantification        *)
(* categories) is the sequence of its entries [k, v] in insertion order.   *)

\* dict.get(key, default) on a document
Get(d, key, default) == IF key \in DOMAIN d THEN d[key] ELSE default

\* dict.get(key, default) on a sequence of entries
Lookup(d, key, default) ==
    IF \E i \in DOMAIN d : d[i].k = key
    THEN d[CHOOSE i \in DOMAIN d : d[i].k = key].v
    ELSE default

EmptyDoc == [x \in {} |-> {}]

\* text[lo:hi] of Python, 0 <= lo
Slice(text, lo, hi) == SubSeq(text, lo + 1, Min(hi, Len(text)))

RECURSIVE SumLens(_, _)
\* sum(len(v) for v in d.values()) from the i-th entry on
SumLens(d, i) == IF i > Len(d) THEN 0 ELSE Len(d[i].v) + SumLens(d, i + 1)

----------------------------------------------------------------------------
(* Regular expressions.  A configured pattern (grammar rule,               *)
(* quantification) is a literal string, matched as re does under           *)
(* re.IGNORECASE; the patterns the code builds itself are the bounded      *)
(* pattern above, the words [a-zA-Z]+ and the sentence ends [.!?]+\s+.     *)

LitAtIgnoreCase(text, lit, i) ==
    /\ i + Len(lit) <= Len(text)
    /\ \A k \in DOMAIN lit : LowerChar(text[i + k]) = LowerChar(lit[k])

RECURSIVE FindLitFrom(_, _, _)
\* the spans re.finditer(lit, text, flags=re.IGNORECASE) yields from pos on:
\* the leftmost match, then the matches after its end
FindLitFrom(text, lit, pos) ==
    IF lit = <<>> \/ pos + Len(lit) > Len(text) THEN <<>>
    ELSE IF LitAtIgnoreCase(text, lit, pos)
         THEN <<[s |-> pos, e |-> pos + Len(lit)]>>
              \o FindLitFrom(text, lit, pos + Len(lit))
         ELSE FindLitFrom(text, lit, pos + 1)

RECURSIVE FindBoundedFrom(_, _, _)
\* the spans re.finditer(r"(^|\W)" + re.escape(lit) + r"(\W|$)", text) yields
\* from pos on: a match consumes the boundary characters on both sides
FindBoundedFrom(text, lit, pos) ==
    IF pos > Len(text) THEN <<>>
    ELSE LET e == BoundedAt(text, lit, pos)
         IN  IF e # -1
             THEN <<[s |-> pos, e |-> e]>>
                  \o FindBoundedFrom(text, lit, IF e > pos THEN e ELSE pos + 1)
             ELSE FindBoundedFrom(text, lit, pos + 1)

----------------------------------------------------------------------------
(* calc_readability *)

AlphaChars == UpperSet \cup LowerSet

IsAlpha(c) == c \in AlphaChars

\* [.!?]
SentenceEnds == {".", "!", "?"}

IsSentenceEnd(c) == c \in SentenceEnds

\* the 1-based positions where a maximal run of characters of S starts
RunStarts(text, S) ==
    {i \in DOMAIN text : text[i] \in S /\ (i = 1 \/ text[i - 1] \notin S)}

\* the 1-based position where the run of characters of S holding i ends
RECURSIVE RunEnd(_, _, _)
RunEnd(text, S, i) ==
    IF i < Len(text) /\ text[i + 1] \in S THEN RunEnd(text, S, i + 1) ELSE i

\* len(w) for the words re.findall(r"[a-zA-Z]+", text), as a bag indexed by
\* the position of the word
WordLens(text) ==
    [i \in RunStarts(text, AlphaChars) |-> RunEnd(text, AlphaChars, i) - i + 1]

\* a variant that splits at every run of sentence ends, followed by
\* whitespace or not
Separators_NoSpace(text) ==
    {[s |-> i, e |-> RunEnd(text, SentenceEnds, i)] : i \in RunStarts(text, SentenceEnds)}

\* the separators of re.split(r"[.!?]+\s+", text): a run of sentence ends
\* followed by whitespace, as [s, e], 1-based and inclusive
Separators(text) ==
    {[s |-> i, e |-> RunEnd(text, SpaceChars, RunEnd(text, SentenceEnds, i) + 1)] :
        i \in {j \in RunStarts(text, SentenceEnds) :
                  LET r == RunEnd(text, SentenceEnds, j)
                  IN  r < Len(text) /\ IsSpace(text[r + 1])}}

\* the pieces re.split returns, as [s, e], 1-based and inclusive (e = s - 1
\* for an empty piece)
Pieces(text) ==
    LET seps == Separators(text)
        cuts == {0} \cup {x.e : x \in seps}
    IN  {[s |-> c + 1,
          e |-> IF \E x \in seps : x.s > c
                THEN (CHOOSE x \in seps : x.s > c /\ \A y \in seps : y.s > c => x.s <= y.s).s - 1
                ELSE Len(text)] : c \in cuts}

\* sents = [s for s in sents if s.strip()]
Sentences(text) ==
    {p \in Pieces(text) : \E i \in p.s..p.e : ~IsSpace(text[i])}

DefaultComplexWordMinLen == 7

DefaultMaxSentenceLength == 24

\* 0.15, as a fraction
DefaultMaxComplexRatio == [num |-> 15, den |-> 100]

\* round(n / d, places) in units of 1 / scale, scale = 10 ^ places: the
\* nearest multiple, and the even one of two equally near.  (Two are equally
\* near only when d is a multiple of 8; for d < 40 at two places and d < 80
\* at three, n / d is then a float without error and round takes the even
\* neighbour.)
RoundRatio(n, d, scale) ==
    LET q == (n * scale) \div d
        r == (n * scale) % d
    IN  IF 2 * r > d \/ (2 * r = d /\ q % 2 = 1) THEN q + 1 ELSE q

\* the places of round(avg_sent_len, 2) and round(complex_ratio, 3)
Hundredths == 100

Thousandths == 1000

calc_readability(text, cfg) ==
    LET lens == WordLens(text)
        word_count == Cardinality(DOMAIN lens)
        sent_count == Max(1, Cardinality(Sentences(text)))
        min_len == Get(cfg, "complex_word_min_len", DefaultComplexWordMinLen)
        complex == Cardinality({i \in DOMAIN lens : lens[i] >= min_len})
        max_len == Get(cfg, "max_sentence_length", DefaultMaxSentenceLength)
        max_ratio == Get(cfg, "max_complex_ratio", DefaultMaxComplexRatio)
        \* word_count / sent_count > max_len
        long == word_count > max_len * sent_count
        \* complex / max(1, word_count) > max_ratio
        dense == complex * max_ratio.den > max_ratio.num * Max(1, word_count)
    IN  [word_count |-> word_count,
         sentence_count |-> sent_count,
         avg_sentence_length |-> RoundRatio(word_count, sent_count, Hundredths),
         complex_word_ratio |-> RoundRatio(complex, Max(1, word_count), Thousandths),
         warnings |-> (IF long THEN <<"Average sentence length is high">> ELSE <<>>)
                      \o (IF dense THEN <<"Too many complex words">> ELSE <<>>)]

----------------------------------------------------------------------------
(* ats_score *)

RECURSIVE Concat(_, _)
\* the concatenation of the sequences ss[i], ss[i+1], ...
Concat(ss, i) == IF i > Len(ss) THEN <<>> ELSE ss[i] \o Concat(ss, i + 1)

\* a variant whose missing general_keywords section is a list of one keyword
GeneralKeywords_DefaultKeyword(lang_cfg) ==
    LET ks == Get(lang_cfg, "general_keywords", <<<<"k", "a", "f">>>>)
    IN  [i \in DOMAIN ks |-> CollapseWs(Lower(ks[i]))]

\* general_keywords = [re.sub(r"\s+", " ", k.lower()) for k in ...]
GeneralKeywords(lang_cfg) ==
    LET ks == Get(lang_cfg, "general_keywords", <<>>)
    IN  [i \in DOMAIN ks |-> CollapseWs(Lower(ks[i]))]

\* action_found: the categories with a matched verb, each with its matches
ActionFound(norm, action_verbs_cfg) ==
    SelectSeq(
        [i \in DOMAIN action_verbs_cfg |->
            [k |-> action_verbs_cfg[i].k,
             v |-> count_matches(norm, Lower2(action_verbs_cfg[i].v)).matched]],
        LAMBDA c : c.v # <<>>)

\* regex_findall(patterns, text): the matched pieces of text, pattern by pattern
regex_findall(patterns, text) ==
    Concat([i \in DOMAIN patterns |->
               LET ms == FindLitFrom(text, patterns[i], 0)
               IN  [j \in DOMAIN ms |-> Slice(text, ms[j].s, ms[j].e)]], 1)

QuantCap == 10

\* a variant that keeps every hit of a category
QuantFound_Uncapped(cv_text, quant_patterns) ==
    SelectSeq(
        [i \in DOMAIN quant_patterns |->
            [k |-> quant_patterns[i].k,
             v |-> regex_findall(quant_patterns[i].v, cv_text)]],
        LAMBDA c : c.v # <<>>)

\* quant_found: the categories with a hit, each with its first 10 hits
QuantFound(cv_text, quant_patterns) ==
    SelectSeq(
        [i \in DOMAIN quant_patterns |->
            [k |-> quant_patterns[i].k,
             v |-> Slice(regex_findall(quant_patterns[i].v, cv_text), 0, QuantCap)]],
        LAMBDA c : c.v # <<>>)

MaxExamples == 5

ExampleContext == 30

\* examples: the first five matches, each with 30 characters on either side
Examples(cv_text, hits) ==
    LET kept == Slice(hits, 0, MaxExamples)
    IN  [i \in DOMAIN kept |-> Slice(cv_text, Max(0, kept[i].s - ExampleContext),
                                     kept[i].e + ExampleContext)]

\* a variant that reports the number of examples kept as the count
GrammarIssue_CountExamples(rule, cv_text, hits) ==
    [message |-> Get(rule, "message", "Grammar issue"),
     severity |-> Get(rule, "severity", "medium"),
     count |-> Min(Len(hits), MaxExamples),
     examples |-> Examples(cv_text, hits)]

\* the issue a rule with the matches hits adds to grammar_issues
GrammarIssue(rule, cv_text, hits) ==
    [message |-> Get(rule, "message", "Grammar issue"),
     severity |-> Get(rule, "severity", "medium"),
     count |-> Len(hits),
     examples |-> Examples(cv_text, hits)]

\* grammar_issues: one issue for every rule that has a pattern and a match
GrammarIssues(cv_text, grammar_rules) ==
    LET withPattern == SelectSeq(grammar_rules,
                                 LAMBDA r : Get(r, "pattern", <<>>) # <<>>)
        matching == SelectSeq(withPattern,
                              LAMBDA r : FindLitFrom(cv_text, r.pattern, 0) # <<>>)
    IN  [i \in DOMAIN matching |->
            GrammarIssue(matching[i], cv_text,
                         FindLitFrom(cv_text, matching[i].pattern, 0))]

\* weak_hits: one hit for every match of every phrase, phrase by phrase
WeakHits(norm, weak_phrases, weak_to_strong) ==
    Concat([i \in DOMAIN weak_phrases |->
               LET ph == weak_phrases[i]
                   ms == FindBoundedFrom(norm, Lower(ph), 0)
               IN  [j \in DOMAIN ms |->
                       [phrase |-> ph,
                        suggest |-> Lookup(weak_to_strong, ph, <<>>),
                        pos |-> ms[j]]]], 1)

KeywordsCap == 15

IndustryCap == 20

ActionCap == 10

QuantPointsCap == 10

BuzzCap == 5

ReadabilityPoints == 10

GrammarPenaltyCap == 10

WeakPenaltyCap == 5

ScoreCeiling == 100

\* a variant with the caps of the two keyword entries exchanged
Breakdown_CapsExchanged(kw_matched, ind_matched, action_found, quant_found, readability, buzz_found) ==
    [keywords |-> Min(Len(kw_matched), IndustryCap),
     industry_keywords |-> Min(Len(ind_matched), KeywordsCap),
     action_verbs |-> Min(SumLens(action_found, 1), ActionCap),
     quantification |-> Min(SumLens(quant_found, 1), QuantPointsCap),
     readability |-> Max(0, ReadabilityPoints - Len(readability.warnings)),
     buzzwords |-> Min(Len(buzz_found), BuzzCap)]

\* the values add() receives, in the order of the calls
Breakdown(kw_matched, ind_matched, action_found, quant_found, readability, buzz_found) ==
    [keywords |-> Min(Len(kw_matched), KeywordsCap),
     industry_keywords |-> Min(Len(ind_matched), IndustryCap),
     action_verbs |-> Min(SumLens(action_found, 1), ActionCap),
     quantification |-> Min(SumLens(quant_found, 1), QuantPointsCap),
     readability |-> Max(0, ReadabilityPoints - Len(readability.warnings)),
     buzzwords |-> Min(Len(buzz_found), BuzzCap)]

\* a variant that takes a point for every issue and hit, without the caps
Penalty_Uncapped(grammar_issues, weak_hits) == Len(grammar_issues) + Len(weak_hits)

\* penalty = min(10, len(grammar_issues)) + min(5, len(weak_hits))
Penalty(grammar_issues, weak_hits) ==
    Min(GrammarPenaltyCap, Len(grammar_issues)) + Min(WeakPenaltyCap, Len(weak_hits))

\* a variant that subtracts the penalty last and clamps nothing
FinalScore_Unclamped(b, penalty) ==
    b.keywords + b.industry_keywords + b.action_verbs + b.quantification
    + b.readability + b.buzzwords - penalty

\* a variant that adds the buzzword points before the penalty is taken
FinalScore_PenaltyLast(b, penalty) ==
    LET all == b.keywords + b.industry_keywords + b.action_verbs
               + b.quantification + b.readability + b.buzzwords
    IN  Max(0, Min(ScoreCeiling, Max(0, all - penalty)))

\* the value of report['ats_score']: the five add() calls, the penalty
\* floored at 0, the last add() call, the clamp
FinalScore(b, penalty) ==
    LET before == b.keywords + b.industry_keywords + b.action_verbs
                  + b.quantification + b.readability
        score == Max(0, before - penalty) + b.buzzwords
    IN  Max(0, Min(ScoreCeiling, score))

\* the issues list: grammar issues, then one entry for every weak hit
Issues(grammar_issues, weak_hits) ==
    [i \in DOMAIN grammar_issues |->
        [type |-> "grammar",
         snippet |-> grammar_issues[i].examples[1],
         suggestion |-> "Rewrite to fix grammar",
         message |-> <<grammar_issues[i].message, grammar_issues[i].count, "instances">>]]
    \o [i \in DOMAIN weak_hits |->
          [type |-> "language",
           snippet |-> weak_hits[i].phrase,
           suggestion |-> IF weak_hits[i].suggest # <<>> THEN weak_hits[i].suggest[1]
                          ELSE "Use a stronger verb",
           message |-> "Weak phrase"]]

ats_score(cv_text, industry, lang_cfg, prof_cfg, ind_cfg) ==
    LET norm == normalize(cv_text)
        general_keywords == GeneralKeywords(lang_cfg)
        industry_terms == flatten_keywords(ind_cfg)
        action_verbs_cfg == Get(prof_cfg, "action_verbs", <<>>)
        weak_language == Get(prof_cfg, "weak_language", EmptyDoc)
        weak_phrases == Get(weak_language, "phrases", <<>>)
        weak_to_strong == Get(weak_language, "replacements", <<>>)
        buzzwords == Lookup(Get(prof_cfg, "buzzwords", <<>>), Lower(industry), <<>>)
        quant_patterns == Get(prof_cfg, "quantification_patterns", <<>>)
        grammar_rules == Get(lang_cfg, "grammar", <<>>)
        readability_cfg == Get(lang_cfg, "readability", EmptyDoc)
        kw == count_matches(norm, general_keywords)
        ind == count_matches(norm, industry_terms)
        action_found == ActionFound(norm, action_verbs_cfg)
        quant_found == QuantFound(cv_text, quant_patterns)
        grammar_issues == GrammarIssues(cv_text, grammar_rules)
        readability == calc_readability(cv_text, readability_cfg)
        weak_hits == WeakHits(norm, weak_phrases, weak_to_strong)
        buzz_found == count_matches(norm, Lower2(buzzwords)).matched
        breakdown == Breakdown(kw.matched, ind.matched, action_found, quant_found,
                               readability, buzz_found)
    IN  [ats_score |-> FinalScore(breakdown, Penalty(grammar_issues, weak_hits)),
         breakdown |-> breakdown,
         keyword_matches |-> kw,
         industry_keyword_matches |-> ind,
         action_verbs_found |-> action_found,
         quantification_found |-> quant_found,
         grammar_issues |-> grammar_issues,
         spelling_suggestions |-> <<>>,
         readability_report |-> readability,
         weak_language_found |-> weak_hits,
         industry_buzzwords_found |-> buzz_found,
         issues |-> Issues(grammar_issues, weak_hits)]

----------------------------------------------------------------------------
(* Input sets *)

SeqsUpTo(S, n) == UNION {[1..k -> S] : k \in 0..n}

\* one character of every class normalize tells apart
NormChars == {"A", "a", "%", "#", " ", "TAB", "LF", "ENDASH"}

NormTexts == SeqsUpTo(NormChars, MaxTextLen)

\* leaf strings: two that differ in case and padding only, one with inner
\* whitespace to collapse, one that is blank
LeafStrs == {<<"X">>, <<"Y">>, <<" ", "x">>, <<"y", " ", "TAB", "Z", " ">>, <<" ">>}

\* the key of the i-th entry of a mapping
KeyName(i) == <<LowerAZ[i]>>

RECURSIVE TreesOfSize(_), ForestsOfSize(_)

\* the nodes made of exactly n nodes
TreesOfSize(n) ==
    (IF n = 1 THEN {StrNode(s) : s \in LeafStrs} ELSE {})
    \cup {ListNode(f) : f \in ForestsOfSize(n - 1)}
    \cup {DictNode([i \in DOMAIN f |-> KeyName(i)], f) : f \in ForestsOfSize(n - 1)}

\* the sequences of nodes made of exactly m nodes in all
ForestsOfSize(m) ==
    IF m = 0 THEN {<<>>}
    ELSE UNION {{<<t>> \o f : t \in TreesOfSize(k), f \in ForestsOfSize(m - k)} :
                k \in 1..m}

\* {"a": ["X", {"b": "Y"}]}
ExampleTree ==
    DictNode(<<<<"a">>>>,
             <<ListNode(<<StrNode(<<"X">>),
                          DictNode(<<<<"b">>>>, <<StrNode(<<"Y">>)>>)>>)>>)

FlattenInputs == UNION {TreesOfSize(n) : n \in 1..MaxNodes} \cup {ExampleTree}

MatchChars == {"a", "b", " "}

\* the normalized texts over MatchChars
MatchTexts == {t \in SeqsUpTo(MatchChars, MaxMatchLen) : normalize(t) = t}

MatchTermSet == {<<"a">>, <<"b">>, <<"a", "b">>, <<"a", " ", "b">>}

MatchTermLists == SeqsUpTo(MatchTermSet, MaxTerms)

\* ats_score is drawn no configuration with a 'spelling' section here, so
\* spelling_dicts is empty and the spelling block is skipped.

CvChars == {"a", "A", " ", "."}

CvTexts == SeqsUpTo(CvChars, MaxCvLen)

\* keywords that repeat a term, differ in case only, and hold "a" inside;
\* rules with and without a pattern; low readability ceilings
LangA ==
    [general_keywords |-> << <<"a">>, <<"A">>, <<"a", "a">>, <<"a">> >>,
     grammar |-> << [pattern |-> <<"a">>, message |-> "m1", severity |-> "high"],
                    [pattern |-> <<"a", ".">>],
                    [message |-> "m3"],
                    [pattern |-> <<>>, message |-> "m4"] >>,
     readability |-> [max_sentence_length |-> 1,
                      complex_word_min_len |-> 2,
                      max_complex_ratio |-> [num |-> 1, den |-> 2]]]

\* a keyword with inner whitespace to collapse; default readability
LangB ==
    [general_keywords |-> << <<"a", " ", " ", "a">> >>,
     grammar |-> << [pattern |-> <<"A", " ">>, message |-> "m5"] >>]

LangCfgs == {EmptyDoc, LangA, LangB}

ProfA ==
    [action_verbs |-> << [k |-> "lead", v |-> << <<"A">>, <<"a", "a">> >>],
                         [k |-> "build", v |-> << <<"a", " ", "a">> >>] >>,
     weak_language |-> [phrases |-> << <<"a">>, <<"A", "a">> >>,
                        replacements |-> << [k |-> <<"a">>, v |-> <<"led", "ran">>] >>],
     buzzwords |-> << [k |-> <<"t">>, v |-> << <<"A">>, <<"a", "a">> >>] >>,
     quantification_patterns |-> << [k |-> "pct", v |-> << <<"a">>, <<".">> >>],
                                    [k |-> "money", v |-> << <<"a", "a">> >>] >>]

\* a two-word weak phrase, and no replacements at all
ProfB == [weak_language |-> [phrases |-> << <<"a", " ", "A">> >>]]

ProfCfgs == {EmptyDoc, ProfA, ProfB}

IndA ==
    DictNode(<< <<"k">>, <<"a">> >>,
             << ListNode(<< StrNode(<<"A">>), StrNode(<<"a", " ", " ", "a">>) >>),
                StrNode(<<" ", "a">>) >>)

IndCfgs == {DictNode(<<>>, <<>>), IndA}

Industries == {<<"T">>, <<"x">>}

SmallInputs ==
    [cv_text : CvTexts, industry : Industries, lang_cfg : LangCfgs,
     prof_cfg : ProfCfgs, ind_cfg : IndCfgs]

Copies(x, n) == [i \in 1..n |-> x]

\* "a a ... a" with n letters
RECURSIVE As(_)
As(n) == IF n = 0 THEN <<>> ELSE IF n = 1 THEN <<"a">> ELSE <<"a", " ">> \o As(n - 1)

\* how many entries each section of a stress configuration has, and whether
\* its readability ceilings are the lowest
Profiles ==
    [k : {0, KeywordsCap + Over}, i : {0, IndustryCap + Over},
     a : {0, ActionCap + Over}, q : {0, QuantCap + Over},
     b : {0, BuzzCap + Over},
     g : {0, 1, GrammarPenaltyCap + Over}, w : {0, 1, WeakPenaltyCap + Over},
     r : BOOLEAN]

StressLang(p) ==
    [general_keywords |-> Copies(<<"a">>, p.k),
     grammar |-> Copies([pattern |-> <<"A">>], p.g) \o << [pattern |-> <<"a", "a">>] >>]
    @@ (IF p.r THEN [readability |-> [max_sentence_length |-> 0,
                                      complex_word_min_len |-> 1,
                                      max_complex_ratio |-> [num |-> 0, den |-> 1]]]
        ELSE EmptyDoc)

StressProf(p) ==
    [action_verbs |-> << [k |-> "c", v |-> Copies(<<"a">>, p.a)] >>,
     weak_language |-> [phrases |-> Copies(<<"a">>, p.w), replacements |-> <<>>],
     buzzwords |-> << [k |-> <<"t">>, v |-> Copies(<<"a">>, p.b)] >>,
     quantification_patterns |-> << [k |-> "q", v |-> Copies(<<"a">>, p.q)] >>]

\* p.i distinct terms: "a", "a a", "a a a", ...
StressInd(p) == ListNode([j \in 1..p.i |-> StrNode(As(j))])

\* one word, and as many words as the longest industry term has
StressTexts(p) == {<<"a">>} \cup (IF p.i > 0 THEN {As(p.i)} ELSE {})

StressInputs ==
    UNION {{[cv_text |-> t, industry |-> <<"T">>, lang_cfg |-> StressLang(p),
             prof_cfg |-> StressProf(p), ind_cfg |-> StressInd(p)] :
               t \in StressTexts(p)} : p \in Profiles}

AtsInputs == SmallInputs \cup StressInputs

\* one character of every class calc_readability tells apart
RdChars == {"a", "1", ".", " "}

\* thirty words in three sentences, a space or a line break after each
\* sentence end but the last
ThirtyWords ==
    As(10) \o <<".", " ">> \o As(10) \o <<"!", "LF">> \o As(10) \o <<"?">>

\* thirty words in three sentences, nothing between a sentence end and the
\* next word
ThirtyWordsTight == As(10) \o <<".">> \o As(10) \o <<".">> \o As(10)

RdTexts == SeqsUpTo(RdChars, MaxRdLen) \cup {ThirtyWords, ThirtyWordsTight}

\* the defaults; low ceilings; a ceiling of a third; a band for the word
\* count, which calc_readability reads under no key
RdCfgs ==
    {EmptyDoc,
     [min_words |-> 2, max_words |-> 3],
     [max_sentence_length |-> 1, complex_word_min_len |-> 2,
      max_complex_ratio |-> [num |-> 1, den |-> 2]],
     [max_sentence_length |-> 2, max_complex_ratio |-> [num |-> 1, den |-> 3],
      complex_word_min_len |-> 1]}

ReadabilityInputs == [text : RdTexts, cfg : RdCfgs]

----------------------------------------------------------------------------
(* normalize, called once and then on its own result *)

IdleNormalize == nText = <<>> /\ nOut = <<>> /\ nAgain = <<>>

IdleFlatten == fCfg = ListNode(<<>>) /\ fOut = <<>>

IdleMatch == mText = <<>> /\ mTerms = <<>> /\ mOut = [matched |-> <<>>, missing |-> <<>>]

NoReport == EmptyDoc

IdleAts ==
    /\ aText = <<>> /\ aIndustry = <<>>
    /\ aLang = EmptyDoc /\ aProf = EmptyDoc /\ aInd = DictNode(<<>>, <<>>)
    /\ report = NoReport

NoResult == EmptyDoc

IdleCall == args = EmptyDoc /\ result = NoResult

InitNormalize ==
    /\ pc = "start"
    /\ nText \in NormTexts
    /\ nOut = <<>>
    /\ nAgain = <<>>
    /\ IdleFlatten
    /\ IdleMatch
    /\ IdleAts
    /\ IdleCall

Normalize ==
    /\ pc = "start"
    /\ nOut' = normalize(nText)
    /\ pc' = "normalized"
    /\ UNCHANGED <<nText, nAgain, flatVars, matchVars, atsVars, callVars>>

Renormalize ==
    /\ pc = "normalized"
    /\ nAgain' = normalize(nOut)
    /\ pc' = "renormalized"
    /\ UNCHANGED <<nText, nOut, flatVars, matchVars, atsVars, callVars>>

NextNormalize == Normalize \/ Renormalize

SpecNormalize == InitNormalize /\ [][NextNormalize]_vars

----------------------------------------------------------------------------
(* C8: normalize returns for every string, normalize(normalize(x)) =       *)
(* normalize(x), and the result holds only a-z, 0-9, % $ + - / . , ( ) and *)
(* single spaces, with no space at either end.                             *)

NormalizedShape(s) ==
    /\ \A i \in DOMAIN s :
          s[i] \in LowerSet \cup Digits
                   \cup {"%", "$", "+", "-", "/", ".", ",", "(", ")", " "}
    /\ \A i \in DOMAIN s : i < Len(s) => ~(s[i] = " " /\ s[i+1] = " ")
    /\ s # <<>> => (s[1] # " " /\ s[Len(s)] # " ")

C8_NormalizeIdempotent ==
    /\ pc \in {"normalized", "renormalized"} => NormalizedShape(nOut)
    /\ pc = "renormalized" => nAgain = nOut

\* a text whose normal form differs from it has been normalized twice
C8_Witness ==
    /\ pc = "renormalized"
    /\ nText = <<"A", "#", "LF">>
    /\ nOut = <<"a">>

----------------------------------------------------------------------------
(* flatten_keywords, called on a configuration tree *)

InitFlatten ==
    /\ pc = "start"
    /\ fCfg \in FlattenInputs
    /\ fOut = <<>>
    /\ IdleNormalize
    /\ IdleMatch
    /\ IdleAts
    /\ IdleCall

Flatten ==
    /\ pc = "start"
    /\ fOut' = flatten_keywords(fCfg)
    /\ pc' = "flattened"
    /\ UNCHANGED <<fCfg, normVars, matchVars, atsVars, callVars>>

NextFlatten == Flatten

SpecFlatten == InitFlatten /\ [][NextFlatten]_vars

----------------------------------------------------------------------------
(* count_matches, called on a normalized text and a term list *)

InitMatch ==
    /\ pc = "start"
    /\ mText \in MatchTexts
    /\ mTerms \in MatchTermLists
    /\ mOut = [matched |-> <<>>, missing |-> <<>>]
    /\ IdleNormalize
    /\ IdleFlatten
    /\ IdleAts
    /\ IdleCall

CountMatches ==
    /\ pc = "start"
    /\ mOut' = count_matches(mText, mTerms)
    /\ pc' = "matched"
    /\ UNCHANGED <<mText, mTerms, normVars, flatVars, atsVars, callVars>>

NextMatch == CountMatches

SpecMatch == InitMatch /\ [][NextMatch]_vars

----------------------------------------------------------------------------
(* ats_score, called on a document and the three configuration documents *)

InitAts ==
    /\ pc = "start"
    /\ \E inp \in AtsInputs :
          /\ aText = inp.cv_text
          /\ aIndustry = inp.industry
          /\ aLang = inp.lang_cfg
          /\ aProf = inp.prof_cfg
          /\ aInd = inp.ind_cfg
    /\ report = NoReport
    /\ IdleNormalize
    /\ IdleFlatten
    /\ IdleMatch
    /\ IdleCall

AtsScore ==
    /\ pc = "start"
    /\ report' = ats_score(aText, aIndustry, aLang, aProf, aInd)
    /\ pc' = "scored"
    /\ UNCHANGED <<atsArgs, normVars, flatVars, matchVars, callVars>>

NextAts == AtsScore

SpecAts == InitAts /\ [][NextAts]_vars

----------------------------------------------------------------------------
(* C7: flatten_keywords returns the leaf strings of the tree lower-cased,  *)
(* trimmed and whitespace-collapsed, in the order of their first           *)
(* occurrence in a depth-first walk, mapping keys ignored, empty terms     *)
(* dropped, no term twice; {"a": ["X", {"b": "Y"}]} gives ["x", "y"].      *)

\* the paths (child indices from the root) of the string leaves below x
RECURSIVE LeafPaths(_)
LeafPaths(x) ==
    IF x.kind = "str" THEN {<<>>}
    ELSE UNION {{<<i>> \o p : p \in LeafPaths(x.kids[i])} : i \in DOMAIN x.kids}

RECURSIVE NodeAt(_, _)
NodeAt(x, p) == IF p = <<>> THEN x ELSE NodeAt(x.kids[p[1]], Tail(p))

\* p is visited before q in a depth-first, left-to-right walk (leaf paths)
RECURSIVE Before(_, _)
Before(p, q) ==
    /\ p # <<>> /\ q # <<>>
    /\ \/ p[1] < q[1]
       \/ p[1] = q[1] /\ Before(Tail(p), Tail(q))

\* lower case, no whitespace but single inner spaces, not empty
CleanTerm(t) ==
    /\ t # <<>>
    /\ \A i \in DOMAIN t : t[i] \notin UpperSet /\ (IsSpace(t[i]) => t[i] = " ")
    /\ t[1] # " " /\ t[Len(t)] # " "
    /\ \A i \in DOMAIN t : i < Len(t) => ~(t[i] = " " /\ t[i+1] = " ")

\* the leaf paths whose string cleans to the term t
PathsOf(x, t) == {p \in LeafPaths(x) : KeyNorm(NodeAt(x, p).str) = t}

C7_FlattenFirstSeenUnique ==
    pc = "flattened" =>
        /\ \A i \in DOMAIN fOut : CleanTerm(fOut[i]) /\ PathsOf(fCfg, fOut[i]) # {}
        /\ \A p \in LeafPaths(fCfg) :
              LET t == KeyNorm(NodeAt(fCfg, p).str)
              IN  t # <<>> => \E i \in DOMAIN fOut : fOut[i] = t
        /\ \A i, j \in DOMAIN fOut : i < j =>
              /\ fOut[i] # fOut[j]
              /\ \E p \in PathsOf(fCfg, fOut[i]) :
                    \A q \in PathsOf(fCfg, fOut[j]) : Before(p, q)
        /\ fCfg = ExampleTree => fOut = <<<<"x">>, <<"y">>>>

\* a mapping nested in a list, and a later leaf that repeats its term in
\* another case and padding
C7_Witness ==
    /\ pc = "flattened"
    /\ fCfg = ListNode(<<DictNode(<<<<"a">>>>, <<StrNode(<<"X">>)>>),
                         StrNode(<<" ", "x">>)>>)
    /\ fOut = <<<<"x">>>>

----------------------------------------------------------------------------
(* C4: count_matches returns (matched, missing) with no term in both, the  *)
(* terms of the two together being the input terms, and each of the two in *)
(* the input order.                                                        *)

C4_MatchedMissingPartition ==
    pc = "matched" =>
        /\ Range(mOut.matched) \cap Range(mOut.missing) = {}
        /\ Range(mOut.matched) \cup Range(mOut.missing) = Range(mTerms)
        /\ mOut.matched = SelectSeq(mTerms, LAMBDA t : t \in Range(mOut.matched))
        /\ mOut.missing = SelectSeq(mTerms, LAMBDA t : t \in Range(mOut.missing))

\* a list with a repeated matched term and a missing one between
C4_Witness ==
    /\ pc = "matched"
    /\ mText = <<"a", " ", "b">>
    /\ mTerms = <<<<"a">>, <<"a", "b">>, <<"a">>>>
    /\ mOut.matched = <<<<"a">>, <<"a">>>>
    /\ mOut.missing = <<<<"a", "b">>>>

----------------------------------------------------------------------------
(* Readings of a report, for the claims below *)

Scored == pc = "scored"

\* the points of the five entries added before the penalty is taken
PointsBeforePenalty ==
    report.breakdown.keywords + report.breakdown.industry_keywords
    + report.breakdown.action_verbs + report.breakdown.quantification
    + report.breakdown.readability

\* min(10, grammar issues) + min(5, weak-phrase hits), read off the report
ReportedPenalty ==
    Min(10, Len(report.grammar_issues)) + Min(5, Len(report.weak_language_found))

NoRepeat(s) == \A i, j \in DOMAIN s : i # j => s[i] # s[j]

\* t stands in text at the 1-based position i
OccursAt(text, t, i) ==
    /\ i >= 1 /\ i + Len(t) - 1 <= Len(text)
    /\ SubSeq(text, i, i + Len(t) - 1) = t

\* t stands in text at i as a whole word: nothing, or a character that is
\* no letter, digit or underscore, on either side
WholeWordAt(text, t, i) ==
    /\ OccursAt(text, t, i)
    /\ i = 1 \/ ~IsWord(text[i - 1])
    /\ i + Len(t) - 1 = Len(text) \/ ~IsWord(text[i + Len(t)])

----------------------------------------------------------------------------
(* C1: the 'ats_score' value of every report is an integer in [0, 100],    *)
(* for every text, industry and configuration, the empty ones included.    *)

C1_ScoreInRange == Scored => report.ats_score \in 0..100

\* the penalty exceeds the points collected before it
C1_Witness ==
    /\ Scored
    /\ PointsBeforePenalty < ReportedPenalty
    /\ report.ats_score \in 0..100

----------------------------------------------------------------------------
(* C2: the penalty min(10, grammar issues) + min(5, weak-phrase hits) is   *)
(* taken from the sum of the keywords, industry_keywords, action_verbs,    *)
(* quantification and readability points, the result is floored at 0, and  *)
(* the buzzword points are added after: the score is                       *)
(* max(0, K+I+A+Q+R - P) + B, never below B.                               *)

C2_PenaltyBeforeBuzzwords ==
    Scored =>
        /\ report.ats_score
             = Max(0, PointsBeforePenalty - ReportedPenalty) + report.breakdown.buzzwords
        /\ report.ats_score >= report.breakdown.buzzwords

\* the floor is reached and buzzword points are added on top of it
C2_Witness ==
    /\ Scored
    /\ PointsBeforePenalty < ReportedPenalty
    /\ report.breakdown.buzzwords = 5
    /\ report.ats_score = 5

----------------------------------------------------------------------------
(* C3: in every report keywords = min(matched general keywords, 15),       *)
(* industry_keywords = min(matched industry terms, 20), action_verbs =     *)
(* min(matched action verbs over all categories, 10), quantification =     *)
(* min(retained quantification hits, 10), buzzwords = min(matched          *)
(* buzzwords, 5), readability = max(0, 10 - readability warnings).         *)

C3_BreakdownCaps ==
    Scored =>
        /\ report.breakdown.keywords = Min(Len(report.keyword_matches.matched), 15)
        /\ report.breakdown.industry_keywords
             = Min(Len(report.industry_keyword_matches.matched), 20)
        /\ report.breakdown.action_verbs
             = Min(SumLens(report.action_verbs_found, 1), 10)
        /\ report.breakdown.quantification
             = Min(SumLens(report.quantification_found, 1), 10)
        /\ report.breakdown.buzzwords = Min(Len(report.industry_buzzwords_found), 5)
        /\ report.breakdown.readability
             = Max(0, 10 - Len(report.readability_report.warnings))

\* every cap is exceeded and both readability warnings are raised
C3_Witness ==
    /\ Scored
    /\ Len(report.keyword_matches.matched) > 15
    /\ Len(report.industry_keyword_matches.matched) > 20
    /\ SumLens(report.action_verbs_found, 1) > 10
    /\ SumLens(report.quantification_found, 1) = 10
    /\ Len(report.industry_buzzwords_found) > 5
    /\ Len(report.readability_report.warnings) = 2
    /\ report.breakdown = [keywords |-> 15, industry_keywords |-> 20,
                           action_verbs |-> 10, quantification |-> 10,
                           readability |-> 8, buzzwords |-> 5]

----------------------------------------------------------------------------
(* C5: the matched and missing sequences of keyword_matches and of         *)
(* industry_keyword_matches hold no term twice, also when general_keywords *)
(* repeats a term or holds two spellings that differ in case only.         *)

C5_MatchResultsUnique ==
    Scored =>
        /\ NoRepeat(report.keyword_matches.matched)
        /\ NoRepeat(report.keyword_matches.missing)
        /\ NoRepeat(report.industry_keyword_matches.matched)
        /\ NoRepeat(report.industry_keyword_matches.missing)

----------------------------------------------------------------------------
(* C6: a general keyword or industry term is reported as matched whenever  *)
(* it occurs as a plain substring of the normalized text ("java" inside    *)
(* "javascript").                                                          *)

ScoredTerms == Range(GeneralKeywords(aLang)) \cup Range(flatten_keywords(aInd))

ReportedMatched ==
    Range(report.keyword_matches.matched)
    \cup Range(report.industry_keyword_matches.matched)

ReportedMissing ==
    Range(report.keyword_matches.missing)
    \cup Range(report.industry_keyword_matches.missing)

C6_SubstringIsMatched ==
    Scored =>
        \A t \in ScoredTerms :
            (\E i \in 1..Len(normalize(aText)) : OccursAt(normalize(aText), t, i))
                => t \in ReportedMatched

(* C6, amended: a general keyword or industry term is reported as matched  *)
(* exactly when it occurs in the normalized text as a whole word, with the *)
(* start or end of the text or a non-word character on either side, and as *)
(* missing otherwise ("java" inside "javascript" is missing).              *)

C6_WholeWordIsMatched ==
    Scored =>
        \A t \in ScoredTerms :
            LET whole == \E i \in 1..Len(normalize(aText)) :
                            WholeWordAt(normalize(aText), t, i)
            IN  /\ whole <=> t \in ReportedMatched
                /\ ~whole <=> t \in ReportedMissing

\* the keyword "a" stands in the text only inside the word "aa"
C6_Witness ==
    /\ Scored
    /\ normalize(aText) = <<"a", "a">>
    /\ <<"a">> \in Range(GeneralKeywords(aLang))
    /\ <<"a">> \in Range(report.keyword_matches.missing)
    /\ <<"a", "a">> \in Range(report.keyword_matches.matched)

----------------------------------------------------------------------------
(* C9: a grammar rule with a pattern gives no issue when the pattern has   *)
(* no match in the text and exactly one issue when it has n >= 1 matches,  *)
(* with count = n and min(n, 5) examples; there are never more issues than *)
(* rules.                                                                  *)

RECURSIVE MatchCountFrom(_, _, _)
\* how many matches of lit, letter case ignored, lie in text from the
\* 1-based position pos on, each starting after the end of the one before
MatchCountFrom(text, lit, pos) ==
    LET starts == {i \in pos..Len(text) : OccursAt(Lower(text), Lower(lit), i)}
    IN  IF starts = {} THEN 0
        ELSE 1 + MatchCountFrom(text, lit,
                     (CHOOSE i \in starts : \A j \in starts : i <= j) + Len(lit))

\* the matches of the rule r in the text; a rule with no pattern, or an
\* empty one, is not applied
RuleMatches(r) ==
    IF "pattern" \in DOMAIN r /\ r.pattern # <<>>
    THEN MatchCountFrom(aText, r.pattern, 1) ELSE 0

C9_GrammarAggregated ==
    Scored =>
        LET rules == Get(aLang, "grammar", <<>>)
            hit == SelectSeq(rules, LAMBDA r : RuleMatches(r) >= 1)
        IN  /\ Len(report.grammar_issues) = Len(hit)
            /\ Len(report.grammar_issues) <= Len(rules)
            /\ \A k \in DOMAIN hit :
                  /\ report.grammar_issues[k].count = RuleMatches(hit[k])
                  /\ Len(report.grammar_issues[k].examples)
                       = Min(RuleMatches(hit[k]), 5)

\* a rule with more than five matches beside a rule with none
C9_Witness ==
    /\ Scored
    /\ Len(report.grammar_issues) = 1
    /\ Len(Get(aLang, "grammar", <<>>)) = 2
    /\ report.grammar_issues[1].count > 5
    /\ Len(report.grammar_issues[1].examples) = 5

----------------------------------------------------------------------------
(* C10: weak-language detection gives one hit, and one 'language' issue,   *)
(* for every whole-word occurrence of every configured phrase in the       *)
(* normalized text, also for occurrences one space apart; the suggestion   *)
(* of an issue is the first replacement of its phrase, or 'Use a stronger  *)
(* verb' when it has none.                                                 *)

WeakPhrases == Get(Get(aProf, "weak_language", EmptyDoc), "phrases", <<>>)

WeakReplacements == Get(Get(aProf, "weak_language", EmptyDoc), "replacements", <<>>)

\* the whole-word occurrences of the phrase in the normalized text
Occurrences(ph) ==
    Cardinality({i \in 1..Len(normalize(aText)) :
                    WholeWordAt(normalize(aText), Lower(ph), i)})

\* how often the phrase is configured
Configured(ph) == Cardinality({i \in DOMAIN WeakPhrases : WeakPhrases[i] = ph})

HitsOf(ph) ==
    Cardinality({i \in DOMAIN report.weak_language_found :
                    report.weak_language_found[i].phrase = ph})

LanguageIssues == SelectSeq(report.issues, LAMBDA x : x.type = "language")

C10_OneHitPerOccurrence ==
    Scored =>
        /\ \A ph \in Range(WeakPhrases) : HitsOf(ph) = Configured(ph) * Occurrences(ph)
        /\ Len(LanguageIssues) = Len(report.weak_language_found)
        /\ \A k \in DOMAIN LanguageIssues :
              LET repl == Lookup(WeakReplacements, LanguageIssues[k].snippet, <<>>)
              IN  LanguageIssues[k].suggestion
                    = IF repl # <<>> THEN repl[1] ELSE "Use a stronger verb"

----------------------------------------------------------------------------
(* C11: quantification_found holds at most 10 hits for every category and  *)
(* only categories with at least one hit, and the hits are pieces of the   *)
(* original text, not of the normalized one, that equal a pattern of the   *)
(* category when letter case is ignored.                                   *)

QuantPatterns == Get(aProf, "quantification_patterns", <<>>)

RECURSIVE TotalMatches(_, _)
\* the matches in the original text of the patterns pats[i], pats[i+1], ...
TotalMatches(pats, i) ==
    IF i > Len(pats) THEN 0
    ELSE MatchCountFrom(aText, pats[i], 1) + TotalMatches(pats, i + 1)

C11_QuantificationCapped ==
    Scored =>
        LET cats == SelectSeq(QuantPatterns, LAMBDA c : TotalMatches(c.v, 1) >= 1)
            found == report.quantification_found
        IN  /\ Len(found) = Len(cats)
            /\ \A k \in DOMAIN found :
                  /\ found[k].k = cats[k].k
                  /\ Len(found[k].v) = Min(10, TotalMatches(cats[k].v, 1))
                  /\ Len(found[k].v) \in 1..10
                  /\ \A j \in DOMAIN found[k].v :
                        /\ \E i \in DOMAIN aText : OccursAt(aText, found[k].v[j], i)
                        /\ \E q \in Range(cats[k].v) : Lower(q) = Lower(found[k].v[j])

\* a category with more than ten matches, cut to ten
C11_Witness ==
    /\ Scored
    /\ \E k \in DOMAIN QuantPatterns :
          /\ TotalMatches(QuantPatterns[k].v, 1) > 10
          /\ \E e \in Range(report.quantification_found) :
                e.k = QuantPatterns[k].k /\ Len(e.v) = 10

\* a hit in capitals for a pattern in small letters, beside a category
\* left out for want of a hit
C11_WitnessCase ==
    /\ Scored
    /\ Len(report.quantification_found) < Len(QuantPatterns)
    /\ \E e \in Range(report.quantification_found) : <<"A">> \in Range(e.v)

----------------------------------------------------------------------------
(* calc_readability, called on a text and the readability thresholds *)

InitReadability ==
    /\ pc = "start"
    /\ args \in ReadabilityInputs
    /\ result = NoResult
    /\ IdleNormalize
    /\ IdleFlatten
    /\ IdleMatch
    /\ IdleAts

CalcReadability ==
    /\ pc = "start"
    /\ result' = calc_readability(args.text, args.cfg)
    /\ pc' = "measured"
    /\ UNCHANGED <<args, normVars, flatVars, matchVars, atsVars>>

NextReadability == CalcReadability

SpecReadability == InitReadability /\ [][NextReadability]_vars

Measured == pc = "measured"

\* the words of the text: the places where a run of letters starts
WordsOf(text) ==
    Cardinality({i \in DOMAIN text :
                    IsAlpha(text[i]) /\ (i = 1 \/ ~IsAlpha(text[i - 1]))})

\* the places of the sentence ends that stand in a run of sentence ends
\* with whitespace after it, and of the whitespace after such a run
CutsBeforeSpace(text) ==
    {k \in DOMAIN text :
        \/ /\ text[k] \in SentenceEnds
           /\ \E e \in k..(Len(text) - 1) :
                 /\ \A m \in k..e : text[m] \in SentenceEnds
                 /\ IsSpace(text[e + 1])
        \/ /\ IsSpace(text[k])
           /\ \E b \in 1..(k - 1) :
                 /\ text[b] \in SentenceEnds
                 /\ \A m \in (b + 1)..k : IsSpace(text[m])}

\* the places of all sentence ends
CutsAnywhere(text) == {k \in DOMAIN text : text[k] \in SentenceEnds}

\* the pieces left between the cuts that are not blank, counted by their
\* first character that is no whitespace
PiecesBetween(text, cuts) ==
    Cardinality({j \in DOMAIN text \ cuts :
                    /\ ~IsSpace(text[j])
                    /\ \A m \in 1..(j - 1) :
                          (\A n \in m..(j - 1) : n \notin cuts) => IsSpace(text[m])})

----------------------------------------------------------------------------
(* C12, as stated: avg_sentence_length is word_count / max(1, sentences),  *)
(* the sentences being the non-empty pieces left by splitting the text at  *)
(* the runs of '.', '!' and '?'; 3 sentences and 30 words give 10.         *)

C12_AvgOverPunctuationSplit ==
    Measured =>
        LET W == WordsOf(args.text)
            S == Max(1, PiecesBetween(args.text, CutsAnywhere(args.text)))
        IN  /\ result.avg_sentence_length * S = Hundredths * W
            /\ (W = 30 /\ S = 3) => result.avg_sentence_length = 10 * Hundredths

(* C12, amended: the sentences are the non-blank pieces left by splitting  *)
(* the text at the runs of '.', '!' and '?' that whitespace follows, that  *)
(* whitespace included; avg_sentence_length is                             *)
(* word_count / max(1, sentences) rounded to two places; 3 such sentences  *)
(* and 30 words give 10; the empty text gives 0 over one sentence.         *)

C12_AvgRoundedOverSentences ==
    Measured =>
        LET W == WordsOf(args.text)
            S == Max(1, PiecesBetween(args.text, CutsBeforeSpace(args.text)))
            avg == result.avg_sentence_length
        IN  /\ result.word_count = W
            /\ result.sentence_count = S
            /\ 2 * (avg * S - Hundredths * W) <= S
            /\ 2 * (Hundredths * W - avg * S) <= S
            /\ (W = 30 /\ S = 3) => avg = 10 * Hundredths
            /\ args.text = <<>> => avg = 0 /\ S = 1

\* thirty words in three sentences have been measured
C12_Witness ==
    /\ Measured
    /\ args.text = ThirtyWords
    /\ result.word_count = 30
    /\ result.sentence_count = 3
    /\ result.avg_sentence_length = 10 * Hundredths

----------------------------------------------------------------------------
(* C13: calc_readability gives a warning in each of three cases: the       *)
(* average sentence length is over the configured ceiling, the ratio of    *)
(* complex words is over the configured ceiling, and the word count is     *)
(* outside the configured band (200 to 1200 when none is configured).      *)

\* word_count / sentence_count > max_sentence_length
TooLong ==
    result.word_count
      > Get(args.cfg, "max_sentence_length", DefaultMaxSentenceLength) * result.sentence_count

\* complex words / max(1, word_count) > max_complex_ratio
TooDense ==
    LET lens == WordLens(args.text)
        min_len == Get(args.cfg, "complex_word_min_len", DefaultComplexWordMinLen)
        ratio == Get(args.cfg, "max_complex_ratio", DefaultMaxComplexRatio)
    IN  Cardinality({i \in DOMAIN lens : lens[i] >= min_len}) * ratio.den
          > ratio.num * Max(1, result.word_count)

OutsideBand ==
    \/ result.word_count < Get(args.cfg, "min_words", 200)
    \/ result.word_count > Get(args.cfg, "max_words", 1200)

C13_ThreeWarnings ==
    Measured =>
        Len(result.warnings) = (IF TooLong THEN 1 ELSE 0) + (IF TooDense THEN 1 ELSE 0)
                               + (IF OutsideBand THEN 1 ELSE 0)

\* what does hold: the two ceilings give the only warnings there are
C13_TwoWarningsOnly ==
    Measured =>
        result.warnings
          = (IF TooLong THEN <<"Average sentence length is high">> ELSE <<>>)
            \o (IF TooDense THEN <<"Too many complex words">> ELSE <<>>)

----------------------------------------------------------------------------
(* The spelling block of ats_score.  It walks two sets of strings, the     *)
(* words of the text and the lexicon.  The order in which a set of strings *)
(* is walked is fixed within one run of the interpreter and can be any     *)
(* order in the next run: string hashes are seeded when a run starts.      *)

\* common_terms
CommonTerms ==
    {<<"f","a","s","t","e","s","t">>, <<"s","o","f","t","w","a","r","e">>,
     <<"e","n","g","i","n","e","e","r">>, <<"h","e","a","d","i","n","g">>,
     <<"o","m","n","i">>, <<"c","h","a","n","n","e","l">>,
     <<"o","m","n","i","-","c","h","a","n","n","e","l">>,
     <<"f","r","o","n","t","e","n","d">>, <<"b","a","c","k","e","n","d">>,
     <<"f","u","l","l","s","t","a","c","k">>,
     <<"f","u","l","l","-","s","t","a","c","k">>, <<"w","e","b">>,
     <<"m","o","b","i","l","e">>, <<"d","e","s","k","t","o","p">>,
     <<"d","a","t","a","b","a","s","e">>, <<"a","p","i">>,
     <<"r","e","s","t">>, <<"g","r","a","p","h","q","l">>,
     <<"m","i","c","r","o","s","e","r","v","i","c","e">>,
     <<"m","i","c","r","o","s","e","r","v","i","c","e","s">>,
     <<"d","e","v","o","p","s">>, <<"c","i">>, <<"c","d">>,
     <<"p","i","p","e","l","i","n","e">>,
     <<"d","e","p","l","o","y","m","e","n","t">>,
     <<"i","n","f","r","a","s","t","r","u","c","t","u","r","e">>,
     <<"c","l","o","u","d">>, <<"a","w","s">>, <<"a","z","u","r","e">>,
     <<"g","c","p">>, <<"h","e","r","o","k","u">>,
     <<"v","e","r","c","e","l">>, <<"n","e","t","l","i","f","y">>,
     <<"j","a","v","a","s","c","r","i","p","t">>,
     <<"t","y","p","e","s","c","r","i","p","t">>,
     <<"p","y","t","h","o","n">>, <<"j","a","v","a">>,
     <<"c","s","h","a","r","p">>, <<"c","+","+">>, <<"g","o">>,
     <<"r","u","s","t">>, <<"r","e","a","c","t">>, <<"v","u","e">>,
     <<"a","n","g","u","l","a","r">>, <<"n","o","d","e">>,
     <<"e","x","p","r","e","s","s">>, <<"d","j","a","n","g","o">>,
     <<"f","l","a","s","k">>, <<"f","a","s","t","a","p","i">>,
     <<"p","o","s","t","g","r","e","s","q","l">>, <<"m","y","s","q","l">>,
     <<"m","o","n","g","o","d","b">>, <<"r","e","d","i","s">>,
     <<"e","l","a","s","t","i","c","s","e","a","r","c","h">>,
     <<"k","a","f","k","a">>, <<"d","o","c","k","e","r">>,
     <<"k","u","b","e","r","n","e","t","e","s">>,
     <<"t","e","r","r","a","f","o","r","m">>,
     <<"a","n","s","i","b","l","e">>, <<"j","e","n","k","i","n","s">>,
     <<"g","i","t","h","u","b">>, <<"g","i","t","l","a","b">>,
     <<"a","g","i","l","e">>, <<"s","c","r","u","m">>,
     <<"k","a","n","b","a","n">>, <<"w","a","t","e","r","f","a","l","l">>,
     <<"l","e","a","n">>, <<"s","i","x","s","i","g","m","a">>,
     <<"t","o","g","a","f">>, <<"u","x">>, <<"u","i">>,
     <<"d","e","s","i","g","n">>, <<"r","e","s","e","a","r","c","h">>,
     <<"p","r","o","t","o","t","y","p","e">>,
     <<"w","i","r","e","f","r","a","m","e">>, <<"m","o","c","k","u","p">>,
     <<"a","n","a","l","y","t","i","c","s">>,
     <<"m","e","t","r","i","c","s">>,
     <<"d","a","s","h","b","o","a","r","d">>,
     <<"r","e","p","o","r","t","i","n","g">>,
     <<"v","i","s","u","a","l","i","z","a","t","i","o","n">>,
     <<"m","a","c","h","i","n","e">>, <<"l","e","a","r","n","i","n","g">>,
     <<"a","r","t","i","f","i","c","i","a","l">>,
     <<"i","n","t","e","l","l","i","g","e","n","c","e">>,
     <<"n","e","u","r","a","l">>, <<"n","e","t","w","o","r","k">>,
     <<"b","l","o","c","k","c","h","a","i","n">>,
     <<"c","r","y","p","t","o","c","u","r","r","e","n","c","y">>,
     <<"n","f","t">>, <<"d","e","f","i">>, <<"w","e","b","3">>,
     <<"m","e","t","a","v","e","r","s","e">>}

\* basic_vocab
BasicVocab ==
    {<<"f","o","r">>, <<"t","h","e">>, <<"a","n","d">>, <<"o","r">>,
     <<"b","u","t">>, <<"i","n">>, <<"o","n">>, <<"a","t">>, <<"t","o">>,
     <<"f","r","o","m">>, <<"w","i","t","h">>, <<"b","y">>, <<"o","f">>,
     <<"a">>, <<"a","n">>, <<"i","s">>, <<"a","r","e">>, <<"w","a","s">>,
     <<"w","e","r","e">>, <<"b","e">>, <<"b","e","e","n">>,
     <<"b","e","i","n","g">>, <<"h","a","v","e">>, <<"h","a","s">>,
     <<"h","a","d">>, <<"d","o">>, <<"d","o","e","s">>, <<"d","i","d">>,
     <<"w","i","l","l">>, <<"w","o","u","l","d">>, <<"c","o","u","l","d">>,
     <<"s","h","o","u","l","d">>, <<"m","a","y">>, <<"m","i","g","h","t">>,
     <<"c","a","n">>, <<"m","u","s","t">>, <<"s","h","a","l","l">>,
     <<"t","h","i","s">>, <<"t","h","a","t">>, <<"t","h","e","s","e">>,
     <<"t","h","o","s","e">>, <<"h","e","r","e">>, <<"t","h","e","r","e">>,
     <<"w","h","e","n">>, <<"w","h","e","r","e">>, <<"w","h","y">>,
     <<"h","o","w">>, <<"w","h","a","t">>, <<"w","h","i","c","h">>,
     <<"w","h","o">>, <<"w","h","o","m">>, <<"w","h","o","s","e">>,
     <<"i","f">>, <<"t","h","e","n">>, <<"e","l","s","e">>,
     <<"w","h","i","l","e">>, <<"u","n","t","i","l">>,
     <<"s","i","n","c","e">>, <<"d","u","r","i","n","g">>,
     <<"b","e","f","o","r","e">>, <<"a","f","t","e","r">>,
     <<"a","b","o","v","e">>, <<"b","e","l","o","w">>,
     <<"u","n","d","e","r">>, <<"o","v","e","r">>,
     <<"b","e","t","w","e","e","n">>, <<"a","m","o","n","g">>,
     <<"t","h","r","o","u","g","h">>, <<"a","c","r","o","s","s">>,
     <<"i","n","t","o">>, <<"o","n","t","o">>, <<"u","p","o","n">>,
     <<"w","i","t","h","i","n">>, <<"w","i","t","h","o","u","t">>,
     <<"a","g","a","i","n","s","t">>, <<"t","o","w","a","r","d">>,
     <<"t","o","w","a","r","d","s">>, <<"a","b","o","u","t">>,
     <<"a","r","o","u","n","d">>, <<"a","l","o","n","g">>,
     <<"b","e","s","i","d","e">>, <<"b","e","y","o","n","d">>,
     <<"i","n","s","i","d","e">>, <<"o","u","t","s","i","d","e">>,
     <<"p","r","o","j","e","c","t">>,
     <<"i","n","t","e","g","r","a","t","i","o","n">>,
     <<"d","e","v","e","l","o","p","m","e","n","t">>,
     <<"i","m","p","l","e","m","e","n","t","a","t","i","o","n">>,
     <<"d","e","p","l","o","y","m","e","n","t">>,
     <<"m","a","n","a","g","e","m","e","n","t">>,
     <<"a","d","m","i","n","i","s","t","r","a","t","i","o","n">>,
     <<"c","o","o","r","d","i","n","a","t","i","o","n">>,
     <<"c","o","l","l","a","b","o","r","a","t","i","o","n">>,
     <<"c","o","m","m","u","n","i","c","a","t","i","o","n">>,
     <<"d","o","c","u","m","e","n","t","a","t","i","o","n">>,
     <<"s","p","e","c","i","f","i","c","a","t","i","o","n">>,
     <<"c","o","n","f","i","g","u","r","a","t","i","o","n">>,
     <<"o","p","t","i","m","i","z","a","t","i","o","n">>,
     <<"a","u","t","o","m","a","t","i","o","n">>,
     <<"m","o","n","i","t","o","r","i","n","g">>,
     <<"t","e","s","t","i","n","g">>,
     <<"d","e","b","u","g","g","i","n","g">>,
     <<"m","a","i","n","t","e","n","a","n","c","e">>,
     <<"s","u","p","p","o","r","t">>, <<"t","r","a","i","n","i","n","g">>,
     <<"r","e","s","e","a","r","c","h">>,
     <<"a","n","a","l","y","s","i","s">>, <<"d","e","s","i","g","n">>,
     <<"p","l","a","n","n","i","n","g">>,
     <<"e","x","e","c","u","t","i","o","n">>,
     <<"d","e","l","i","v","e","r","y">>,
     <<"e","v","a","l","u","a","t","i","o","n">>,
     <<"a","s","s","e","s","s","m","e","n","t">>,
     <<"r","e","v","i","e","w">>, <<"a","u","d","i","t">>,
     <<"c","o","m","p","l","i","a","n","c","e">>,
     <<"s","e","c","u","r","i","t","y">>,
     <<"p","e","r","f","o","r","m","a","n","c","e">>,
     <<"s","c","a","l","a","b","i","l","i","t","y">>,
     <<"r","e","l","i","a","b","i","l","i","t","y">>,
     <<"a","v","a","i","l","a","b","i","l","i","t","y">>,
     <<"u","s","a","b","i","l","i","t","y">>, <<"b","e","s","t">>,
     <<"g","o","o","d">>, <<"g","r","e","a","t">>,
     <<"e","x","c","e","l","l","e","n","t">>,
     <<"o","u","t","s","t","a","n","d","i","n","g">>,
     <<"s","u","p","e","r","i","o","r">>, <<"q","u","a","l","i","t","y">>,
     <<"e","f","f","i","c","i","e","n","t">>,
     <<"e","f","f","e","c","t","i","v","e">>,
     <<"s","u","c","c","e","s","s","f","u","l">>,
     <<"i","n","n","o","v","a","t","i","v","e">>,
     <<"c","r","e","a","t","i","v","e">>,
     <<"s","t","r","a","t","e","g","i","c">>,
     <<"t","e","c","h","n","i","c","a","l">>,
     <<"p","r","o","f","e","s","s","i","o","n","a","l">>,
     <<"e","x","p","e","r","i","e","n","c","e","d">>,
     <<"s","k","i","l","l","e","d">>,
     <<"k","n","o","w","l","e","d","g","e","a","b","l","e">>,
     <<"r","e","s","p","o","n","s","i","b","l","e">>,
     <<"a","c","c","o","u","n","t","a","b","l","e">>,
     <<"d","e","d","i","c","a","t","e","d">>,
     <<"m","o","t","i","v","a","t","e","d">>,
     <<"r","e","s","u","l","t","s","-","o","r","i","e","n","t","e","d">>}

\* compound_terms
CompoundTerms ==
    {
     <<"s","o","f","t","w","a","r","e"," ","e","n","g","i","n","e","e","r">>,
     <<"s","o","f","t","w","a","r","e"," ","d","e","v","e","l","o","p","e","r">>,
     <<"f","r","o","n","t","e","n","d"," ","d","e","v","e","l","o","p","e","r">>,
     <<"b","a","c","k","e","n","d"," ","d","e","v","e","l","o","p","e","r">>,
     <<"f","u","l","l"," ","s","t","a","c","k"," ","d","e","v","e","l","o","p","e","r">>,
     <<"f","u","l","l","s","t","a","c","k"," ","d","e","v","e","l","o","p","e","r">>,
     <<"w","e","b"," ","d","e","v","e","l","o","p","e","r">>,
     <<"m","o","b","i","l","e"," ","d","e","v","e","l","o","p","e","r">>,
     <<"d","a","t","a"," ","e","n","g","i","n","e","e","r">>,
     <<"d","a","t","a"," ","s","c","i","e","n","t","i","s","t">>,
     <<"m","a","c","h","i","n","e"," ","l","e","a","r","n","i","n","g"," ","e","n","g","i","n","e","e","r">>,
     <<"m","l"," ","e","n","g","i","n","e","e","r">>,
     <<"d","e","v","o","p","s"," ","e","n","g","i","n","e","e","r">>,
     <<"s","i","t","e"," ","r","e","l","i","a","b","i","l","i","t","y"," ","e","n","g","i","n","e","e","r">>,
     <<"s","r","e">>, <<"q","a"," ","e","n","g","i","n","e","e","r">>,
     <<"t","e","s","t"," ","e","n","g","i","n","e","e","r">>,
     <<"q","u","a","l","i","t","y"," ","a","s","s","u","r","a","n","c","e"," ","e","n","g","i","n","e","e","r">>,
     <<"u","i"," ","d","e","s","i","g","n","e","r">>,
     <<"u","x"," ","d","e","s","i","g","n","e","r">>,
     <<"p","r","o","d","u","c","t"," ","m","a","n","a","g","e","r">>,
     <<"p","r","o","j","e","c","t"," ","m","a","n","a","g","e","r">>,
     <<"p","r","o","g","r","a","m"," ","m","a","n","a","g","e","r">>,
     <<"t","e","c","h","n","i","c","a","l"," ","l","e","a","d">>,
     <<"t","e","a","m"," ","l","e","a","d">>,
     <<"e","n","g","i","n","e","e","r","i","n","g"," ","m","a","n","a","g","e","r">>,
     <<"s","e","n","i","o","r"," ","e","n","g","i","n","e","e","r">>,
     <<"p","r","i","n","c","i","p","a","l"," ","e","n","g","i","n","e","e","r">>,
     <<"s","t","a","f","f"," ","e","n","g","i","n","e","e","r">>,
     <<"s","e","n","i","o","r"," ","d","e","v","e","l","o","p","e","r">>,
     <<"l","e","a","d"," ","d","e","v","e","l","o","p","e","r">>,
     <<"a","r","c","h","i","t","e","c","t">>,
     <<"s","o","l","u","t","i","o","n"," ","a","r","c","h","i","t","e","c","t">>,
     <<"e","n","t","e","r","p","r","i","s","e"," ","a","r","c","h","i","t","e","c","t">>,
     <<"c","l","o","u","d"," ","a","r","c","h","i","t","e","c","t">>,
     <<"s","e","c","u","r","i","t","y"," ","e","n","g","i","n","e","e","r">>,
     <<"n","e","t","w","o","r","k"," ","e","n","g","i","n","e","e","r">>,
     <<"s","y","s","t","e","m","s"," ","e","n","g","i","n","e","e","r">>,
     <<"i","n","f","r","a","s","t","r","u","c","t","u","r","e"," ","e","n","g","i","n","e","e","r">>}

\* the terms that mark a word as a job title
TitleTerms ==
    {<<"e","n","g","i","n","e","e","r">>,
     <<"d","e","v","e","l","o","p","e","r">>,
     <<"m","a","n","a","g","e","r">>, <<"a","n","a","l","y","s","t">>,
     <<"s","p","e","c","i","a","l","i","s","t">>,
     <<"c","o","n","s","u","l","t","a","n","t">>}

\* the endings that mark a word as technical
TechSuffixes ==
    {<<"w","a","r","e">>, <<"t","e","c","h">>, <<"s","o","f","t">>,
     <<"n","e","t">>, <<"s","y","s">>, <<"a","p","p">>, <<"w","e","b">>,
     <<"m","o","b","i","l","e">>, <<"c","l","o","u","d">>,
     <<"d","a","t","a">>, <<"a","i">>, <<"m","l">>, <<"a","p","i">>,
     <<"s","d","k">>, <<"c","l","i">>, <<"g","u","i">>, <<"u","i">>,
     <<"u","x">>}

\* the beginnings that mark a word as technical
TechPrefixes ==
    {<<"m","i","c","r","o">>, <<"m","a","c","r","o">>,
     <<"m","u","l","t","i">>, <<"c","r","o","s","s">>,
     <<"i","n","t","e","r">>, <<"i","n","t","r","a">>,
     <<"t","r","a","n","s">>, <<"s","u","b">>, <<"s","u","p","e","r">>,
     <<"h","y","p","e","r">>, <<"u","l","t","r","a">>, <<"m","e","g","a">>,
     <<"g","i","g","a">>, <<"t","e","r","a">>, <<"n","a","n","o">>,
     <<"p","i","c","o">>, <<"f","e","m","t","o">>}

StartsWith(x, p) == Len(p) <= Len(x) /\ SubSeq(x, 1, Len(p)) = p

EndsWith(x, p) == Len(p) <= Len(x) /\ SubSeq(x, Len(x) - Len(p) + 1, Len(x)) = p

\* p in x
Contains(x, p) == \E i \in 1..(Len(x) - Len(p) + 1) : SubSeq(x, i, i + Len(p) - 1) = p

\* term.replace(' ', '')
RemoveSpaces(term) == SelectSeq(term, LAMBDA c : c # " ")

\* the terms every lexicon holds
BuiltinLexicon ==
    CommonTerms \cup BasicVocab
    \cup {RemoveSpaces(t) : t \in CompoundTerms}
    \cup {SubChars({" "}, "-", t) : t \in CompoundTerms}

\* lex: the words of the dictionaries, lower-cased, and the built-in terms
SpellLexicon(spelling_dicts) ==
    UNION {{Lower(spelling_dicts[i][j]) : j \in DOMAIN spelling_dicts[i]} :
              i \in DOMAIN spelling_dicts}
    \cup BuiltinLexicon

\* [a-zA-Z0-9]
AlnumChars == AlphaChars \cup Digits

\* [a-zA-Z0-9-]
TokenChars == AlnumChars \cup {"-"}

RECURSIVE TokensFrom(_, _)
\* re.findall(r"[a-zA-Z][a-zA-Z0-9-]*[a-zA-Z0-9]|[a-zA-Z]{2,}", text) from
\* the 1-based position i on: a letter, then the longest stretch of letters,
\* digits and hyphens that ends in a letter or digit.  (Where that fails the
\* next character is no letter, so the second alternative fails too.)
TokensFrom(text, i) ==
    IF i > Len(text) THEN <<>>
    ELSE IF ~IsAlpha(text[i]) THEN TokensFrom(text, i + 1)
    ELSE LET r == RunEnd(text, TokenChars, i)
             ends == {e \in (i + 1)..r : text[e] \in AlnumChars}
         IN  IF ends = {} THEN TokensFrom(text, i + 1)
             ELSE LET e == CHOOSE x \in ends : \A y \in ends : y <= x
                  IN  <<SubSeq(text, i, e)>> \o TokensFrom(text, e + 1)

\* words
SpellWords(cv_text) == TokensFrom(cv_text, 1)

\* w.isupper(): a cased character, and none in lower case
IsUpperStr(w) ==
    /\ \E i \in DOMAIN w : w[i] \in UpperSet
    /\ \A i \in DOMAIN w : w[i] \notin LowerSet

\* w.isalpha()
IsAlphaStr(w) == w # <<>> /\ \A i \in DOMAIN w : IsAlpha(w[i])

\* the tests that make the loop continue with the next word
SkipWord(w, lex) ==
    LET wl == Lower(w)
    IN  \/ wl \in lex
        \/ w[1] \in UpperSet /\ Len(w) > 2
        \/ Cardinality({i \in DOMAIN w : w[i] \in UpperSet}) > 1 /\ Len(w) > 3
        \/ IsUpperStr(w) /\ Len(w) <= 5
        \/ \E i \in DOMAIN w : w[i] \in Digits
        \/ \E t \in TitleTerms : Contains(wl, t)
        \/ \E t \in TechSuffixes : EndsWith(wl, t)
        \/ \E t \in TechPrefixes : StartsWith(wl, t)
        \/ \E i \in DOMAIN w : w[i] \in {"-", "_"}

\* wl[:3]
PrefixLen == 3

MaxSuggestions == 3

Prefix(w) == Slice(Lower(w), 0, PrefixLen)

\* the entries of the lexicon a word of this prefix can be given
Candidates(lex, prefix) == {x \in lex : StartsWith(x, prefix)}

\* the orders a set can be walked in
Perms(S) ==
    {f \in [1..Cardinality(S) -> S] : \A i, j \in DOMAIN f : i # j => f[i] # f[j]}

\* the words that reach the lookup of suggestions
Unskipped(words, lex) ==
    {w \in words : ~SkipWord(w, lex) /\ Len(w) >= 3 /\ IsAlphaStr(w)}

\* what a run of the interpreter fixes, as far as it shows: the order of
\* set(words) among the words that reach the lookup, and the order of the
\* lexicon among the entries of one prefix, for the prefixes of those words.
\* Nothing is walked when there is no dictionary.
HashOrders(cv_text, spelling_dicts) ==
    IF spelling_dicts = <<>> THEN {[words |-> <<>>, lex |-> EmptyDoc]}
    ELSE LET lex == SpellLexicon(spelling_dicts)
             words == Unskipped(Range(SpellWords(cv_text)), lex)
             prefixes == {Prefix(w) : w \in words}
             orders == UNION {Perms(Candidates(lex, q)) : q \in prefixes}
         IN  [words : Perms(words),
              lex : {f \in [prefixes -> orders] :
                        \A q \in prefixes : Range(f[q]) = Candidates(lex, q)}]

\* sugg = [x for x in lex if x.startswith(wl[:3])][:3]
Suggestions(w, proc) == Slice(proc.lex[Prefix(w)], 0, MaxSuggestions)

\* spelling_suggestions, in a run that walks its sets in the orders of proc
SpellingSuggestions(cv_text, spelling_dicts, proc) ==
    IF spelling_dicts = <<>> THEN <<>>
    ELSE LET flagged == SelectSeq(proc.words, LAMBDA w : Suggestions(w, proc) # <<>>)
         IN  [i \in DOMAIN flagged |->
                 [word |-> flagged[i], suggestions |-> Suggestions(flagged[i], proc)]]

\* the entries of the issues list for the spelling suggestions
SpellingIssues(spelling_suggestions) ==
    [i \in DOMAIN spelling_suggestions |->
        [type |-> "spelling",
         snippet |-> spelling_suggestions[i].word,
         suggestion |-> <<"Consider", spelling_suggestions[i].suggestions>>,
         message |-> "Potential misspelling"]]

\* ats_score in a run that walks its sets in the orders of proc: the report
\* with the spelling suggestions, and their issues after the grammar issues
ats_score_hashed(proc, cv_text, industry, lang_cfg, prof_cfg, ind_cfg) ==
    LET base == ats_score(cv_text, industry, lang_cfg, prof_cfg, ind_cfg)
        dicts == Get(Get(lang_cfg, "spelling", EmptyDoc), "dictionaries", <<>>)
        sp == SpellingSuggestions(cv_text, dicts, proc)
    IN  [base EXCEPT !.spelling_suggestions = sp,
                     !.issues = Issues(base.grammar_issues, <<>>)
                                \o SpellingIssues(sp)
                                \o Issues(<<>>, base.weak_language_found)]

\* words that are flagged, one that is known, a proper noun
SpellTokens ==
    {<<"z","z","z","q">>, <<"k","a","f">>, <<"t","h","e">>, <<"K","a","f">>}

\* words with a digit, a hyphen, capitals only, no entry of their prefix
SkippedWords ==
    <<"q","1","x"," ","q","a","-","x"," ","X","Z","Q"," ","x","x","x","-"," ","z","z","z","q">>

RECURSIVE JoinWords(_, _)
\* the words ws[i], ws[i+1], ... with a space between
JoinWords(ws, i) ==
    IF i > Len(ws) THEN <<>>
    ELSE IF i = Len(ws) THEN ws[i]
    ELSE ws[i] \o <<" ">> \o JoinWords(ws, i + 1)

SpellTexts ==
    {JoinWords(ws, 1) : ws \in SeqsUpTo(SpellTokens, MaxSpellWords)} \cup {SkippedWords}

\* four words of one prefix, in two dictionaries
SpellDicts ==
    << <<<<"z","z","z","a">>, <<"Z","z","z","b">>>>,
       <<<<"z","z","z","c">>, <<"z","z","z","d">>>> >>

\* no spelling section; no dictionary; two dictionaries beside a grammar rule
SpellLangs ==
    {EmptyDoc,
     [spelling |-> [dictionaries |-> <<>>]],
     [spelling |-> [dictionaries |-> SpellDicts],
      grammar |-> <<[pattern |-> <<"t","h","e">>, message |-> "m"]>>]}

SpellProf == [weak_language |-> [phrases |-> << <<"k","a","f">> >>]]

SpellInputs ==
    [cv_text : SpellTexts, industry : {<<"x">>}, lang_cfg : SpellLangs,
     prof_cfg : {SpellProf}, ind_cfg : {DictNode(<<>>, <<>>)}]

SpellDictsOf(lang_cfg) == Get(Get(lang_cfg, "spelling", EmptyDoc), "dictionaries", <<>>)

----------------------------------------------------------------------------
(* ats_score, called twice on the same arguments, in one run of the        *)
(* interpreter or in two                                                   *)

InitRepeat ==
    /\ pc = "start"
    /\ args \in SpellInputs
    /\ \E h \in HashOrders(args.cv_text, SpellDictsOf(args.lang_cfg)) :
          result = [proc |-> h, run |-> 1, first |-> NoReport, second |-> NoReport]
    /\ IdleNormalize
    /\ IdleFlatten
    /\ IdleMatch
    /\ IdleAts

FirstCall ==
    /\ pc = "start"
    /\ result' = [result EXCEPT !.first =
                     ats_score_hashed(result.proc, args.cv_text, args.industry,
                                      args.lang_cfg, args.prof_cfg, args.ind_cfg)]
    /\ pc' = "first"
    /\ UNCHANGED <<args, normVars, flatVars, matchVars, atsVars>>

\* the interpreter is started anew: the sets are walked in some order
Restart ==
    /\ pc = "first"
    /\ \E h \in HashOrders(args.cv_text, SpellDictsOf(args.lang_cfg)) :
          result' = [result EXCEPT !.proc = h, !.run = 2]
    /\ pc' = "restarted"
    /\ UNCHANGED <<args, normVars, flatVars, matchVars, atsVars>>

SecondCall ==
    /\ pc \in {"first", "restarted"}
    /\ result' = [result EXCEPT !.second =
                     ats_score_hashed(result.proc, args.cv_text, args.industry,
                                      args.lang_cfg, args.prof_cfg, args.ind_cfg)]
    /\ pc' = "second"
    /\ UNCHANGED <<args, normVars, flatVars, matchVars, atsVars>>

NextRepeat == FirstCall \/ Restart \/ SecondCall

SpecRepeat == InitRepeat /\ [][NextRepeat]_vars

----------------------------------------------------------------------------
(* C14: two calls of ats_score with the same text, industry and            *)
(* configuration return the same report: the same spelling_suggestions in  *)
(* the same order, the same suggestions for every word, the same order of  *)
(* the issues list.                                                        *)

C14_SameReport == pc = "second" => result.first = result.second

\* what does hold: the reports are the same when both calls are made in one
\* run of the interpreter, and everything but the spelling suggestions and
\* the issues is the same in any case
C14_SameReportInOneRun ==
    pc = "second" =>
        /\ result.run = 1 => result.first = result.second
        /\ [result.first EXCEPT !.spelling_suggestions = <<>>, !.issues = <<>>]
             = [result.second EXCEPT !.spelling_suggestions = <<>>, !.issues = <<>>]

----------------------------------------------------------------------------
(* The advanced report of the upload pipeline (main.py, upload_resume)     *)

\* the parameters of ats_score; none has a default, none collects extras
AtsScoreParams == <<"cv_text", "industry", "lang_cfg", "prof_cfg", "ind_cfg">>

\* a call of ats_score with the positional arguments actuals: a TypeError is
\* raised unless there is one argument for every parameter
advanced_ats_score(actuals) ==
    IF Len(actuals) # Len(AtsScoreParams) THEN [raised |-> "TypeError"]
    ELSE [returned |-> ats_score(actuals[1], actuals[2], actuals[3], actuals[4],
                                 actuals[5])]

\* advanced_report: what the call returned, or None (no report) when it
\* raised; the call passes the advisory model as a sixth argument
AdvancedReport(text, industry, lang_cfg, prof_cfg, ind_cfg, model) ==
    LET call == advanced_ats_score(<<text, industry, lang_cfg, prof_cfg, ind_cfg, model>>)
    IN  IF "raised" \in DOMAIN call THEN NoReport ELSE call.returned

\* the advisory model: not configured (None), or configured
Models == {"None", "GenerativeModel"}

UploadInputs ==
    [text : CvTexts, industry : Industries, lang_cfg : {EmptyDoc, LangA},
     prof_cfg : {ProfA}, ind_cfg : IndCfgs, model : Models]

InitUpload ==
    /\ pc = "start"
    /\ args \in UploadInputs
    /\ result = NoResult
    /\ IdleNormalize
    /\ IdleFlatten
    /\ IdleMatch
    /\ IdleAts

UploadScore ==
    /\ pc = "start"
    /\ result' = [advanced_report |->
                     AdvancedReport(args.text, args.industry, args.lang_cfg,
                                    args.prof_cfg, args.ind_cfg, args.model)]
    /\ pc' = "uploaded"
    /\ UNCHANGED <<args, normVars, flatVars, matchVars, atsVars>>

NextUpload == UploadScore

SpecUpload == InitUpload /\ [][NextUpload]_vars

----------------------------------------------------------------------------
(* C15: with the advisory model absent (None), or failing, the scoring     *)
(* entry point still returns a complete report whose score is the          *)
(* rule-based score, so the advanced report of the upload pipeline is      *)
(* present whenever rule-based scoring of the text succeeds.               *)

C15_AdvancedReportPresent ==
    pc = "uploaded" =>
        /\ result.advanced_report # NoReport
        /\ result.advanced_report
             = ats_score(args.text, args.industry, args.lang_cfg, args.prof_cfg,
                         args.ind_cfg)

\* what does hold: the pipeline never has an advanced report
C15_AdvancedReportAbsent == pc = "uploaded" => result.advanced_report = NoReport

-----------------------------------------------------------------------------
(* Patterns the regular-expression engine cannot compile.                  *)
(* A pattern of the model is a sequence of atoms; the atom "OPEN" stands   *)
(* for an opening parenthesis that is never closed, which re.compile       *)
(* rejects ("missing ), unterminated subpattern").  re.findall and         *)
(* re.finditer compile their pattern before they look at the text.         *)

Unclosed == "OPEN"

Parseable(pat) == Unclosed \notin Range(pat)

\* the patterns regex_findall hands to re.findall: every pattern of every category
CompiledQuant(quant_patterns) ==
    UNION {Range(quant_patterns[i].v) : i \in DOMAIN quant_patterns}

\* the patterns the grammar loop hands to re.finditer: those of the rules
\* that have a non-empty pattern
CompiledGrammar(grammar_rules) ==
    {grammar_rules[i].pattern :
        i \in {j \in DOMAIN grammar_rules : Get(grammar_rules[j], "pattern", <<>>) # <<>>}}

\* ats_score as a call: it returns the report, or re.error leaves it
ats_score_call(cv_text, industry, lang_cfg, prof_cfg, ind_cfg) ==
    LET quant_patterns == Get(prof_cfg, "quantification_patterns", <<>>)
        grammar_rules  == Get(lang_cfg, "grammar", <<>>)
    IN  IF \E p \in CompiledQuant(quant_patterns) \cup CompiledGrammar(grammar_rules) :
              ~Parseable(p)
        THEN [raised |-> "re.error"]
        ELSE [returned |-> ats_score(cv_text, industry, lang_cfg, prof_cfg, ind_cfg)]

BadPattern == <<Unclosed>>

BadRule == [pattern |-> BadPattern, message |-> "bad"]

\* language configurations whose grammar rules hold an unparseable pattern
LangBad ==
    {[grammar |-> <<BadRule>>],
     [grammar |-> <<BadRule>> \o LangA.grammar],
     [grammar |-> LangA.grammar \o <<BadRule>>]}

\* professional configurations whose quantification patterns hold one
ProfBad ==
    {[quantification_patterns |-> <<[k |-> "bad", v |-> <<BadPattern>>]>>],
     [quantification_patterns |->
         <<[k |-> "bad", v |-> <<BadPattern>>]>> \o ProfA.quantification_patterns]}

RegexInputs ==
    [cv_text : CvTexts, industry : {<<"x">>},
     lang_cfg : {EmptyDoc, LangA} \cup LangBad,
     prof_cfg : {EmptyDoc, ProfA} \cup ProfBad,
     ind_cfg : {DictNode(<<>>, <<>>)}]

InitRegex ==
    /\ pc = "start"
    /\ args \in RegexInputs
    /\ result = NoResult
    /\ IdleNormalize /\ IdleFlatten /\ IdleMatch /\ IdleAts

CallAtsScore ==
    /\ pc = "start"
    /\ result' = ats_score_call(args.cv_text, args.industry, args.lang_cfg,
                                args.prof_cfg, args.ind_cfg)
    /\ pc' = "called"
    /\ UNCHANGED <<args, normVars, flatVars, matchVars, atsVars>>

NextRegex == CallAtsScore

SpecRegex == InitRegex /\ [][NextRegex]_vars

\* the rules and patterns that compile
ParseableRules(grammar_rules) ==
    SelectSeq(grammar_rules, LAMBDA r : Parseable(Get(r, "pattern", <<>>)))

ParseablePatterns(quant_patterns) ==
    [i \in DOMAIN quant_patterns |->
        [k |-> quant_patterns[i].k,
         v |-> SelectSeq(quant_patterns[i].v, LAMBDA p : Parseable(p))]]

WithoutUnparseable(cfg, key, kept) ==
    IF key \in DOMAIN cfg THEN [cfg EXCEPT ![key] = kept] ELSE cfg

HasUnparseable ==
    \E p \in CompiledQuant(Get(args.prof_cfg, "quantification_patterns", <<>>))
             \cup CompiledGrammar(Get(args.lang_cfg, "grammar", <<>>)) : ~Parseable(p)

\* C16: a grammar or quantification pattern that cannot be parsed is skipped:
\* the call returns the report of the configuration without that pattern.
C16_UnparseableSkipped ==
    pc = "called" =>
        /\ "returned" \in DOMAIN result
        /\ result.returned =
             ats_score(args.cv_text, args.industry,
                       WithoutUnparseable(args.lang_cfg, "grammar",
                           ParseableRules(Get(args.lang_cfg, "grammar", <<>>))),
                       WithoutUnparseable(args.prof_cfg, "quantification_patterns",
                           ParseablePatterns(Get(args.prof_cfg,
                                                 "quantification_patterns", <<>>))),
                       args.ind_cfg)

\* what the code does instead: an unparseable pattern ends the call with re.error
C16_UnparseableRaises ==
    pc = "called" => (HasUnparseable <=> "raised" \in DOMAIN result)

-----------------------------------------------------------------------------
(* ats_score on configurations with sections missing                       *)

\* ats_score in a run that walks its sets in the orders of proc, as a call
ats_score_run(proc, cv_text, industry, lang_cfg, prof_cfg, ind_cfg) ==
    LET call == ats_score_call(cv_text, industry, lang_cfg, prof_cfg, ind_cfg)
    IN  IF "raised" \in DOMAIN call THEN call
        ELSE [returned |-> ats_score_hashed(proc, cv_text, industry, lang_cfg,
                                            prof_cfg, ind_cfg)]

LangSections == {"general_keywords", "grammar", "spelling", "readability"}

ProfSections == {"action_verbs", "weak_language", "buzzwords", "quantification_patterns"}

\* a language document with every section, each with something to find
LangFull ==
    [general_keywords |-> << <<"k","a","f">>, <<"q">> >>,
     grammar |-> << [pattern |-> <<"t","h","e">>, message |-> "m"] >>,
     spelling |-> [dictionaries |-> SpellDicts],
     readability |-> [max_sentence_length |-> 1,
                      complex_word_min_len |-> 4,
                      max_complex_ratio |-> [num |-> 1, den |-> 4]]]

\* a professional-language document with every section
ProfFull ==
    [action_verbs |-> << [k |-> "lead", v |-> << <<"K","a","f">> >>] >>,
     weak_language |-> [phrases |-> << <<"t","h","e">> >>,
                        replacements |-> << [k |-> <<"t","h","e">>, v |-> <<"led">>] >>],
     buzzwords |-> << [k |-> <<"x">>, v |-> << <<"k","a","f">>, <<"t","h","e">> >>] >>,
     quantification_patterns |-> << [k |-> "pct", v |-> << <<"z","z","z">> >>] >>]

\* the document with the sections of keys only
Restrict(cfg, keys) == [k \in DOMAIN cfg \cap keys |-> cfg[k]]

\* a word of seven letters, complex by the default of calc_readability
LongWord == <<"z","z","z","q","z","z","z">>

SectionTexts ==
    {<<>>,
     <<"k","a","f">>,
     JoinWords(<<<<"t","h","e">>, <<"k","a","f">>, <<"z","z","z","q">>>>, 1),
     JoinWords(<<LongWord, <<"t","h","e">>>>, 1),
     LongWord}

SectionInputs ==
    [cv_text : SectionTexts, industry : {<<"x">>},
     lang_cfg : {Restrict(LangFull, ks) : ks \in SUBSET LangSections},
     prof_cfg : {Restrict(ProfFull, ks) : ks \in SUBSET ProfSections},
     ind_cfg : {DictNode(<<>>, <<>>), DictNode(<<<<"k">>>>, <<StrNode(<<"k","a","f">>)>>)}]

InitSections ==
    /\ pc = "start"
    /\ args \in SectionInputs
    /\ result = NoResult
    /\ IdleNormalize /\ IdleFlatten /\ IdleMatch /\ IdleAts

ScoreSections ==
    /\ pc = "start"
    /\ \E h \in HashOrders(args.cv_text, SpellDictsOf(args.lang_cfg)) :
          result' = ats_score_run(h, args.cv_text, args.industry, args.lang_cfg,
                                  args.prof_cfg, args.ind_cfg)
    /\ pc' = "scored"
    /\ UNCHANGED <<args, normVars, flatVars, matchVars, atsVars>>

NextSections == ScoreSections

SpecSections == InitSections /\ [][NextSections]_vars

\* the sections missing from the configuration of the call
Absent == (LangSections \ DOMAIN args.lang_cfg) \cup (ProfSections \ DOMAIN args.prof_cfg)

\* the parts of report r that belong to a list or mapping section are zero and empty
SectionEmpty(r, section) ==
    CASE section = "general_keywords" ->
            /\ r.breakdown.keywords = 0
            /\ r.keyword_matches.matched = <<>>
            /\ r.keyword_matches.missing = <<>>
      [] section = "grammar" -> r.grammar_issues = <<>>
      [] section = "spelling" -> r.spelling_suggestions = <<>>
      [] section = "action_verbs" ->
            r.breakdown.action_verbs = 0 /\ r.action_verbs_found = <<>>
      [] section = "weak_language" -> r.weak_language_found = <<>>
      [] section = "buzzwords" ->
            r.breakdown.buzzwords = 0 /\ r.industry_buzzwords_found = <<>>
      [] section = "quantification_patterns" ->
            r.breakdown.quantification = 0 /\ r.quantification_found = <<>>
      [] OTHER -> TRUE

\* the readability parts of report r are zero and empty
ReadabilityEmpty(r) ==
    r.breakdown.readability = 0 /\ r.readability_report.warnings = <<>>

\* the readability parts of report r are those of the default thresholds
ReadabilityByDefault(r) ==
    /\ r.readability_report = calc_readability(args.cv_text, EmptyDoc)
    /\ r.breakdown.readability = ReadabilityPoints - Len(r.readability_report.warnings)

\* C17 as stated: with any set of sections missing the call returns a report,
\* and for every missing section, readability included, the breakdown entry
\* and the result list of that section are zero and empty.
C17_MissingSectionsAllZero ==
    pc = "scored" =>
        /\ "returned" \in DOMAIN result
        /\ \A s \in Absent : SectionEmpty(result.returned, s)
        /\ "readability" \in Absent => ReadabilityEmpty(result.returned)

\* C17, amended: with any set of sections missing the call returns a report;
\* every missing list or mapping section leaves its breakdown entry zero and
\* its result list empty, and a missing readability section leaves the
\* default thresholds in force, so that the readability entry is 10 less the
\* warnings raised under the defaults.
C17_MissingSectionsEmptyOrDefault ==
    pc = "scored" =>
        /\ "returned" \in DOMAIN result
        /\ \A s \in Absent : SectionEmpty(result.returned, s)
        /\ "readability" \in Absent => ReadabilityByDefault(result.returned)

\* every section is missing, of all three documents, and a report came back
C17_Witness ==
    /\ pc = "scored"
    /\ Absent = LangSections \cup ProfSections
    /\ args.ind_cfg = DictNode(<<>>, <<>>)
    /\ args.cv_text = LongWord
    /\ "returned" \in DOMAIN result
    /\ result.returned.readability_report.warnings # <<>>

\* some sections are missing and the others found something
C17_WitnessSome ==
    /\ pc = "scored"
    /\ Absent = {"grammar", "buzzwords"}
    /\ "returned" \in DOMAIN result
    /\ result.returned.spelling_suggestions # <<>>
    /\ result.returned.weak_language_found # <<>>
    /\ result.returned.breakdown.keywords > 0
    /\ result.returned.breakdown.quantification > 0
    /\ result.returned.breakdown.action_verbs > 0

-----------------------------------------------------------------------------
(* _extract_phone                                                          *)

\* an absent field
None == <<"None">>

\* re.search found nothing
NoMatch == EmptyDoc

\* the character at position i, or a mark past the end of the text
At(t, i) == IF i \in DOMAIN t THEN t[i] ELSE "END"

RECURSIVE SkipRun(_, _, _)
\* the first position from i on whose character is outside S
SkipRun(t, S, i) == IF i <= Len(t) /\ t[i] \in S THEN SkipRun(t, S, i + 1) ELSE i

\* [\s\-()]
IntlSeps == SpaceChars \cup {"-", "(", ")"}

\* [\s\-.]
UsSeps == SpaceChars \cup {"-", "."}

\* \d{1,3}
MaxCcDigits == 3

\* {7,15}
MinNumDigits == 7

MaxNumDigits == 15

RECURSIVE NumGroups(_, _, _)
\* (?:\d[\s\-()]*) repeated greedily from position i, n times at most:
\* how many repetitions there are and where the last one ends
NumGroups(t, i, n) ==
    IF n = 0 \/ At(t, i) \notin Digits THEN [count |-> 0, end |-> i]
    ELSE LET rest == NumGroups(t, SkipRun(t, IntlSeps, i + 1), n - 1)
         IN  [count |-> rest.count + 1, end |-> rest.end]

\* the groups of a match of the international pattern that starts at i with
\* a country code of c digits
IntlAt(t, i, c) ==
    LET q == SkipRun(t, IntlSeps, i + c + 1)
        g == NumGroups(t, q, MaxNumDigits)
    IN  [cc |-> SubSeq(t, i + 1, i + c), num |-> SubSeq(t, q, g.end - 1)]

\* the lengths of country code the international pattern matches with at i
IntlCcLens(t, i) ==
    {c \in 1..MaxCcDigits :
        /\ At(t, i) = "+"
        /\ \A j \in 1..c : At(t, i + j) \in Digits
        /\ NumGroups(t, SkipRun(t, IntlSeps, i + c + 1), MaxNumDigits).count
              >= MinNumDigits}

\* re.search of \+(?P<cc>\d{1,3})[\s\-()]*?(?P<num>(?:\d[\s\-()]*){7,15}):
\* the leftmost start, and there the longest country code that matches
IntlSearch(t) ==
    LET starts == {i \in DOMAIN t : IntlCcLens(t, i) # {}}
    IN  IF starts = {} THEN NoMatch
        ELSE LET i == CHOOSE i \in starts : \A j \in starts : i <= j
                 c == CHOOSE c \in IntlCcLens(t, i) : \A d \in IntlCcLens(t, i) : d <= c
             IN  IntlAt(t, i, c)

\* the position after a match of \(?\d{3}\)?[\s\-.]?\d{3}[\s\-.]?\d{4} that
\* starts at i, or 0 when there is none
UsEnd(t, i) ==
    LET p1 == IF At(t, i) = "(" THEN i + 1 ELSE i
        p2 == p1 + 3
        p3 == IF At(t, p2) = ")" THEN p2 + 1 ELSE p2
        p4 == IF At(t, p3) \in UsSeps THEN p3 + 1 ELSE p3
        p5 == p4 + 3
        p6 == IF At(t, p5) \in UsSeps THEN p5 + 1 ELSE p5
    IN  IF /\ \A j \in p1..(p2 - 1) : At(t, j) \in Digits
           /\ \A j \in p4..(p5 - 1) : At(t, j) \in Digits
           /\ \A j \in p6..(p6 + 3) : At(t, j) \in Digits
        THEN p6 + 4 ELSE 0

\* re.search of the fallback pattern, which has no cc group
UsSearch(t) ==
    LET starts == {i \in DOMAIN t : UsEnd(t, i) # 0}
    IN  IF starts = {} THEN NoMatch
        ELSE LET i == CHOOSE i \in starts : \A j \in starts : i <= j
             IN  [num |-> SubSeq(t, i, UsEnd(t, i) - 1)]

\* re.sub(r"[^\d]", "", raw_num)
DigitsOf(raw_num) == SelectSeq(raw_num, LAMBDA ch : ch \in Digits)

\* the fields returned for match m
PhoneFields(m) ==
    LET cc == IF "cc" \in DOMAIN m THEN m.cc ELSE <<>>
        digits == DigitsOf(m.num)
        national == IF cc # <<>> /\ StartsWith(digits, cc)
                    THEN SubSeq(digits, Len(cc) + 1, Len(digits))
                    ELSE digits
    IN  [mobile |-> IF cc # <<>> THEN <<"+">> \o cc \o national ELSE national,
         mobile_country_code |-> IF cc # <<>> THEN <<"+">> \o cc ELSE None,
         mobile_national_number |-> IF national # <<>> THEN national ELSE None]

NoPhone ==
    [mobile |-> None, mobile_country_code |-> None, mobile_national_number |-> None]

\* a variant that tries the fallback pattern first
extract_phone_FallbackFirst(text) ==
    LET cleaned == SubChars(TabCr, " ", text)
        us == UsSearch(cleaned)
        intl == IntlSearch(cleaned)
    IN  IF us # NoMatch THEN PhoneFields(us)
        ELSE IF intl # NoMatch THEN PhoneFields(intl)
        ELSE NoPhone

extract_phone(text) ==
    LET cleaned == SubChars(TabCr, " ", text)
        intl == IntlSearch(cleaned)
        us == UsSearch(cleaned)
    IN  IF intl # NoMatch THEN PhoneFields(intl)
        ELSE IF us # NoMatch THEN PhoneFields(us)
        ELSE NoPhone

\* what comes before the number: nothing, a word, a number of the fallback form
PhoneLeads ==
    {<<>>,
     <<"a", " ">>,
     <<"5", "5", "5", "-", "1", "2", "3", "-", "4", "5", "6", "7", " ">>,
     <<"(", "5", "5", "5", ")", "1", "2", "3", ".", "4", "5", "6", "7", "TAB">>}

PhonePlus == {<<>>, <<"+">>}

\* no country code; one, two, three digits; four digits
PhoneCcs ==
    {<<>>,
     <<"1">>,
     <<"4", "4">>,
     <<"4", "4", "7">>,
     <<"4", "4", "7", "7">>}

PhoneGaps ==
    {<<>>,
     <<" ">>,
     <<"-", "(">>,
     <<"TAB">>,
     <<".">>}

\* national parts: that of +44 7700 900123, one that repeats 44, seven
\* digits and six, the fallback form, seventeen digits, one that starts with 1
PhoneNationals ==
    {<<"7", "7", "0", "0", " ", "9", "0", "0", "1", "2", "3">>,
     <<"4", "4", "7", "7", "0", "0", "9", "0", "0", "1", "2", "3">>,
     <<"4", "4", " ", "7", "7", "0", "0", " ", "9", "0", "0", "1", "2", "3">>,
     <<"1", "2", "3", "4", "5", "6", "7">>,
     <<"1", "2", "3", "4", "5", "6">>,
     <<"5", "5", "5", " ", "1", "2", "3", " ", "4", "5", "6", "7">>,
     <<"1", "2", "3", "4", "5", "6", "7", "8", "9", "0", "1", "2", "3", "4", "5", "6", "7">>,
     <<"1", " ", "(", "5", "5", "5", ")", " ", "1", "2", "3", "-", "4", "5", "6", "7">>,
     <<"7", "7", "0", " ", "0", "9", "0">>}

PhoneTails ==
    {<<>>,
     <<" ", "x">>,
     <<"LF", "+", "1", " ", "2", "0", "2", "5", "5", "5", "0", "1", "2", "3">>}

PhoneTexts ==
    {a \o b \o c \o d \o e \o f :
        a \in PhoneLeads, b \in PhonePlus, c \in PhoneCcs, d \in PhoneGaps,
        e \in PhoneNationals, f \in PhoneTails}

InitPhone ==
    /\ pc = "start"
    /\ args \in [text : PhoneTexts]
    /\ result = NoResult
    /\ IdleNormalize /\ IdleFlatten /\ IdleMatch /\ IdleAts

ExtractPhone ==
    /\ pc = "start"
    /\ result' = extract_phone(args.text)
    /\ pc' = "extracted"
    /\ UNCHANGED <<args, normVars, flatVars, matchVars, atsVars>>

NextPhone == ExtractPhone

SpecPhone == InitPhone /\ [][NextPhone]_vars

\* '+44 7700 900123'
ExamplePhone == <<"+","4","4"," ","7","7","0","0"," ","9","0","0","1","2","3">>

Cleaned == SubChars(TabCr, " ", args.text)

\* the digits of the national part begin with the digits of the country code
RepeatsCc(m) == StartsWith(DigitsOf(m.num), m.cc)

\* the digits of the national part, less one leading copy of the country code
\* when they repeat it
NationalOf(m) ==
    IF RepeatsCc(m)
    THEN SubSeq(DigitsOf(m.num), Len(m.cc) + 1, Len(DigitsOf(m.num)))
    ELSE DigitsOf(m.num)

\* C18: _extract_phone prefers the international pattern over the fallback;
\* when the international pattern matches, the national number is the digit
\* string of the matched national part, less one leading copy of the country
\* code if and only if it repeats the country code, and the mobile is the
\* country code followed by the national number; '+44 7700 900123' yields
\* '+44' and '7700900123'; when neither pattern matches the three fields are
\* absent.
C18_PhoneFields ==
    pc = "extracted" =>
        /\ IntlSearch(Cleaned) # NoMatch =>
              /\ result.mobile_country_code = <<"+">> \o IntlSearch(Cleaned).cc
              /\ result.mobile_national_number = NationalOf(IntlSearch(Cleaned))
              /\ result.mobile = result.mobile_country_code \o result.mobile_national_number
        /\ args.text = ExamplePhone =>
              /\ result.mobile_country_code = <<"+","4","4">>
              /\ result.mobile_national_number = <<"7","7","0","0","9","0","0","1","2","3">>
        /\ (IntlSearch(Cleaned) = NoMatch /\ UsSearch(Cleaned) = NoMatch) =>
              /\ result.mobile = None
              /\ result.mobile_country_code = None
              /\ result.mobile_national_number = None

\* both patterns match, the fallback one further left, and the national part
\* repeats the country code
C18_Witness ==
    /\ pc = "extracted"
    /\ IntlSearch(Cleaned) # NoMatch
    /\ UsSearch(Cleaned) # NoMatch
    /\ At(Cleaned, 1) # "+"
    /\ RepeatsCc(IntlSearch(Cleaned))
    /\ result.mobile_country_code = <<"+","4","4">>

\* the example of the specification
C18_WitnessExample == pc = "extracted" /\ args.text = ExamplePhone

\* neither pattern matches
C18_WitnessAbsent ==
    /\ pc = "extracted"
    /\ IntlSearch(Cleaned) = NoMatch
    /\ UsSearch(Cleaned) = NoMatch
    /\ Len(DigitsOf(args.text)) >= MinNumDigits

-----------------------------------------------------------------------------
(* _extract_experience                                                     *)

\* the literal lit at position i, letters of either case (re.IGNORECASE)
MatchesLit(t, i, lit) ==
    /\ i >= 1
    /\ i + Len(lit) - 1 <= Len(t)
    /\ Lower(SubSeq(t, i, i + Len(lit) - 1)) = lit

\* \b between positions p - 1 and p
WordBoundary(t, p) == IsWord(At(t, p - 1)) # IsWord(At(t, p))

\* ^ under re.MULTILINE
LineStart(t, i) == i = 1 \/ At(t, i - 1) = "LF"

\* heading_exp
ExpHeads ==
    {<<"w", "o", "r", "k", " ", "e", "x", "p", "e", "r", "i", "e", "n", "c", "e">>,
     <<"p", "r", "o", "f", "e", "s", "s", "i", "o", "n", "a", "l", " ", "e", "x", "p", "e", "r", "i", "e", "n", "c", "e">>,
     <<"e", "x", "p", "e", "r", "i", "e", "n", "c", "e">>,
     <<"e", "m", "p", "l", "o", "y", "m", "e", "n", "t", " ", "h", "i", "s", "t", "o", "r", "y">>,
     <<"c", "a", "r", "e", "e", "r", " ", "h", "i", "s", "t", "o", "r", "y">>,
     <<"w", "o", "r", "k", " ", "h", "i", "s", "t", "o", "r", "y">>,
     <<"p", "r", "o", "f", "e", "s", "s", "i", "o", "n", "a", "l", " ", "b", "a", "c", "k", "g", "r", "o", "u", "n", "d">>}

\* heading_other
OtherHeads ==
    {<<"e", "d", "u", "c", "a", "t", "i", "o", "n">>,
     <<"a", "c", "a", "d", "e", "m", "i", "c", "s">>,
     <<"p", "r", "o", "j", "e", "c", "t", "s">>,
     <<"s", "k", "i", "l", "l", "s">>,
     <<"c", "e", "r", "t", "i", "f", "i", "c", "a", "t", "i", "o", "n", "s">>,
     <<"a", "w", "a", "r", "d", "s">>,
     <<"p", "u", "b", "l", "i", "c", "a", "t", "i", "o", "n", "s">>,
     <<"s", "u", "m", "m", "a", "r", "y">>,
     <<"p", "r", "o", "f", "i", "l", "e">>,
     <<"o", "b", "j", "e", "c", "t", "i", "v", "e">>,
     <<"i", "n", "t", "e", "r", "e", "s", "t", "s">>,
     <<"r", "e", "f", "e", "r", "e", "n", "c", "e", "s">>,
     <<"c", "o", "n", "t", "a", "c", "t">>,
     <<"p", "e", "r", "s", "o", "n", "a", "l">>}

\* the position after a match of ^(?:...)\b at i, or 0; no alternative is
\* the beginning of another, so one at most matches at i
HeadingEnd(t, i, heads) ==
    LET ends == {i + Len(h) : h \in {h \in heads : /\ LineStart(t, i)
                                                  /\ MatchesLit(t, i, h)
                                                  /\ WordBoundary(t, i + Len(h))}}
    IN  IF ends = {} THEN 0 ELSE CHOOSE e \in ends : TRUE

\* the smallest member of a set of numbers that is not empty
Least(S) == CHOOSE x \in S : \A y \in S : x <= y

Greatest(S) == CHOOSE x \in S : \A y \in S : y <= x

\* block = text[start_idx:end_idx] for the heading at i: up to the next
\* heading of another section that text[m.end():] holds
Block(t, i) ==
    LET end == HeadingEnd(t, i, ExpHeads)
        rest == SubSeq(t, end, Len(t))
        others == {j \in DOMAIN rest : HeadingEnd(rest, j, OtherHeads) # 0}
    IN  IF others = {} THEN SubSeq(t, i, Len(t))
        ELSE SubSeq(t, i, end + Least(others) - 2)

\* month_names, in the order of the year; sep and sept are both September
MonthNames ==
    <<<<"j", "a", "n">>,
     <<"f", "e", "b">>,
     <<"m", "a", "r">>,
     <<"a", "p", "r">>,
     <<"m", "a", "y">>,
     <<"j", "u", "n">>,
     <<"j", "u", "l">>,
     <<"a", "u", "g">>,
     <<"s", "e", "p">>,
     <<"o", "c", "t">>,
     <<"n", "o", "v">>,
     <<"d", "e", "c">>>>

Sept == <<"s", "e", "p", "t">>

\* the position after month_names\s+\d{4} at i, or 0
MonthYearEnd(b, i) ==
    LET names == Range(MonthNames) \cup {Sept}
        ends == {SkipRun(b, SpaceChars, i + Len(n)) + 4 :
                    n \in {n \in names :
                              /\ MatchesLit(b, i, n)
                              /\ IsSpace(At(b, i + Len(n)))
                              /\ \A d \in 0..3 :
                                    At(b, SkipRun(b, SpaceChars, i + Len(n)) + d) \in Digits}}
    IN  IF ends = {} THEN 0 ELSE CHOOSE e \in ends : TRUE

\* the position after \d{4} at i, or 0
YearEnd(b, i) == IF \A d \in 0..3 : At(b, i + d) \in Digits THEN i + 4 ELSE 0

\* the position after \d{1,2}/\d{4} at i, or 0
SlashYearEnd(b, i) ==
    LET n == IF At(b, i) \in Digits /\ At(b, i + 1) \in Digits /\ At(b, i + 2) = "/" THEN 2
             ELSE IF At(b, i) \in Digits /\ At(b, i + 1) = "/" THEN 1
             ELSE 0
    IN  IF n > 0 /\ YearEnd(b, i + n + 1) # 0 THEN i + n + 5 ELSE 0

Present == <<"p", "r", "e", "s", "e", "n", "t">>

Current == <<"c", "u", "r", "r", "e", "n", "t">>

\* the position after present or current at i, or 0
OpenEnd(b, i) ==
    IF MatchesLit(b, i, Present) THEN i + Len(Present)
    ELSE IF MatchesLit(b, i, Current) THEN i + Len(Current)
    ELSE 0

MonthPattern == 1

YearPattern == 2

SlashPattern == 3

\* patterns, by their place in the list
DatePatterns == {MonthPattern, YearPattern, SlashPattern}

\* the position after the group 'from' of pattern k at i, or 0
FromEnd(b, i, k) ==
    IF k = MonthPattern THEN MonthYearEnd(b, i)
    ELSE IF k = YearPattern THEN YearEnd(b, i)
    ELSE SlashYearEnd(b, i)

\* the position after the group 'to' of pattern k at i, or 0
ToEnd(b, i, k) ==
    IF FromEnd(b, i, k) # 0 THEN FromEnd(b, i, k) ELSE OpenEnd(b, i)

\* [-–to] under re.IGNORECASE
RangeSepChars == {"-", "ENDASH", "t", "o", "T", "O"}

\* a match of pattern k that starts at i: from, \s*, the longest run of
\* [-–to]+ after which the rest matches, \s*, to
RangeAt(b, i, k) ==
    LET fe == FromEnd(b, i, k)
        s == SkipRun(b, SpaceChars, fe)
        run == SkipRun(b, RangeSepChars, s) - s
        lens == {n \in 1..run : ToEnd(b, SkipRun(b, SpaceChars, s + n), k) # 0}
        ts == SkipRun(b, SpaceChars, s + Greatest(lens))
    IN  IF fe = 0 \/ lens = {} THEN NoMatch
        ELSE [from |-> SubSeq(b, i, fe - 1),
              to |-> SubSeq(b, ts, ToEnd(b, ts, k) - 1),
              end |-> ToEnd(b, ts, k)]

RECURSIVE FindRanges(_, _, _)
\* re.finditer(pat, block): the matches from position i on, left to right,
\* none overlapping another
FindRanges(b, i, k) ==
    IF i > Len(b) THEN <<>>
    ELSE IF RangeAt(b, i, k) = NoMatch THEN FindRanges(b, i + 1, k)
    ELSE <<RangeAt(b, i, k)>> \o FindRanges(b, RangeAt(b, i, k).end, k)

\* parse_dt returned None
NoDate == EmptyDoc

DigitValue == [c \in Digits |-> CHOOSE n \in 0..9 : <<"0","1","2","3","4","5","6","7","8","9">>[n + 1] = c]

RECURSIVE IntOf(_)
\* int(s) of a string of digits
IntOf(s) == IF s = <<>> THEN 0 ELSE 10 * IntOf(SubSeq(s, 1, Len(s) - 1)) + DigitValue[s[Len(s)]]

\* the number of the month that a month name stands for
MonthNumber(name) ==
    IF name = Sept THEN 9 ELSE CHOOSE n \in DOMAIN MonthNames : MonthNames[n] = name

MonthsInYear == 12

\* the first year written with four digits that is not short of a digit
FirstYear == 1000

\* date_parser.parse(s, default=datetime(2000, 1, 1)) on the strings the
\* three patterns hand it, None when it raises: month and year, year alone
\* (January), month/year (month 13 and month 0 raise).  The day comes from
\* the default and is always 1.  The texts of the model write years from
\* 1000 on.
parse_dt(s) ==
    LET letters == SelectSeq(s, LAMBDA c : c \in UpperSet \cup LowerSet)
        year == IntOf(SubSeq(s, Len(s) - 3, Len(s)))
        slash == {i \in DOMAIN s : s[i] = "/"}
    IN  CASE year >= FirstYear /\ letters # <<>> ->
                [year |-> year, month |-> MonthNumber(Lower(letters))]
          [] year >= FirstYear /\ slash # {} ->
                LET month == IntOf(SubSeq(s, 1, Least(slash) - 1))
                IN  IF month \in 1..MonthsInYear THEN [year |-> year, month |-> month]
                    ELSE NoDate
          [] year >= FirstYear /\ letters = <<>> /\ slash = {} ->
                [year |-> year, month |-> 1]

\* the decimal digits of a year of four digits
YearText(y) ==
    LET ds == <<"0","1","2","3","4","5","6","7","8","9">>
    IN  <<ds[((y \div 1000) % 10) + 1], ds[((y \div 100) % 10) + 1],
          ds[((y \div 10) % 10) + 1], ds[(y % 10) + 1]>>

\* datetime.utcnow().strftime("%b %Y"), the clock reading now
NowText(now) ==
    LET name == MonthNames[now.month]
    IN  <<UpperAZ[CHOOSE i \in DOMAIN LowerAZ : LowerAZ[i] = name[1]]>>
        \o SubSeq(name, 2, 3) \o <<" ">> \o YearText(now.year)

\* dt_ > df, both on the first of their month at midnight
Later(dt, df) == dt.year > df.year \/ (dt.year = df.year /\ dt.month > df.month)

\* what one match adds to total_months
RangeMonths(m, now) ==
    LET df == parse_dt(m.from)
        dt == parse_dt(IF Lower(m.to) \in {Present, Current} THEN NowText(now) ELSE m.to)
    IN  IF df # NoDate /\ dt # NoDate /\ Later(dt, df)
        THEN Max(0, (dt.year - df.year) * MonthsInYear + (dt.month - df.month))
        ELSE 0

RECURSIVE SumMonths(_, _, _)
SumMonths(ms, i, now) ==
    IF i > Len(ms) THEN 0 ELSE RangeMonths(ms[i], now) + SumMonths(ms, i + 1, now)

\* what the three patterns add for one block
BlockMonths(b, now) ==
    SumMonths(FindRanges(b, 1, MonthPattern), 1, now)
    + SumMonths(FindRanges(b, 1, YearPattern), 1, now)
    + SumMonths(FindRanges(b, 1, SlashPattern), 1, now)

\* the positions of the matches of heading_exp
ExpHeadings(t) == {i \in DOMAIN t : HeadingEnd(t, i, ExpHeads) # 0}

RECURSIVE SumBlocks(_, _, _)
\* total_months over the headings at the positions of hs
SumBlocks(t, hs, now) ==
    IF hs = {} THEN 0
    ELSE BlockMonths(Block(t, Least(hs)), now) + SumBlocks(t, hs \ {Least(hs)}, now)

YearsWord == <<"y", "e", "a", "r">>

OfWord == <<"o", "f">>

ExperienceWord == <<"e", "x", "p", "e", "r", "i", "e", "n", "c", "e">>

\* \+?\s+years?\s+of\s+experience at position j
PhraseRest(t, j) ==
    LET a == IF At(t, j) = "+" THEN j + 1 ELSE j
        b == SkipRun(t, SpaceChars, a)
        c == b + Len(YearsWord)
        d == IF Lower(<<At(t, c)>>) = <<"s">> THEN c + 1 ELSE c
        e == SkipRun(t, SpaceChars, d)
        f == e + Len(OfWord)
        g == SkipRun(t, SpaceChars, f)
    IN  /\ b > a /\ MatchesLit(t, b, YearsWord)
        /\ e > d /\ MatchesLit(t, e, OfWord)
        /\ g > f /\ MatchesLit(t, g, ExperienceWord)

\* the digits of group 1 of a match of the phrase pattern that starts at i:
\* two digits if the rest follows them, else one
PhraseDigits(t, i) ==
    IF At(t, i) \in Digits /\ At(t, i + 1) \in Digits /\ PhraseRest(t, i + 2)
    THEN SubSeq(t, i, i + 1)
    ELSE IF At(t, i) \in Digits /\ PhraseRest(t, i + 1) THEN SubSeq(t, i, i)
    ELSE <<>>

\* re.search of the phrase pattern: the leftmost match
PhraseSearch(t) ==
    LET starts == {i \in DOMAIN t : PhraseDigits(t, i) # <<>>}
    IN  IF starts = {} THEN NoMatch ELSE [years |-> PhraseDigits(t, Least(starts))]

\* a variant that tries the phrase whether or not a heading was found
extract_experience_PhraseAlways(text, now) ==
    LET hs == ExpHeadings(text)
        total_months == SumBlocks(text, hs, now)
        m == PhraseSearch(text)
    IN  IF total_months > 0
        THEN [years |-> total_months \div MonthsInYear, has_section |-> hs # {}]
        ELSE IF m # NoMatch
        THEN [years |-> IntOf(m.years), has_section |-> hs # {}]
        ELSE [has_section |-> hs # {}]

\* _extract_experience with the clock reading now; a report without the
\* field years is one whose years is None
extract_experience(text, now) ==
    LET hs == ExpHeadings(text)
        total_months == SumBlocks(text, hs, now)
        m == PhraseSearch(text)
    IN  IF total_months > 0
        THEN [years |-> total_months \div MonthsInYear, has_section |-> hs # {}]
        ELSE IF hs # {} /\ m # NoMatch
        THEN [years |-> IntOf(m.years), has_section |-> TRUE]
        ELSE [has_section |-> hs # {}]

\* no date
Unwritten == NoDate

\* the ranges a section can write, with the dates they stand for: from
\* before to, year to year, month/year, to before from, a month 13 that no
\* date has, and two that run to the present day
RangeForms ==
    << [txt |-> <<"J", "a", "n", " ", "2", "0", "2", "0", " ", "-", " ", "D", "e", "c", " ", "2", "0", "2", "2">>,
        from |-> [year |-> 2020, month |-> 1], to |-> [year |-> 2022, month |-> 12],
        open |-> FALSE],
       [txt |-> <<"2", "0", "1", "9", "-", "2", "0", "2", "1">>,
        from |-> [year |-> 2019, month |-> 1], to |-> [year |-> 2021, month |-> 1],
        open |-> FALSE],
       [txt |-> <<"0", "3", "/", "2", "0", "2", "1", " ", "t", "o", " ", "0", "6", "/", "2", "0", "2", "1">>,
        from |-> [year |-> 2021, month |-> 3], to |-> [year |-> 2021, month |-> 6],
        open |-> FALSE],
       [txt |-> <<"D", "e", "c", " ", "2", "0", "2", "2", " ", "-", " ", "J", "a", "n", " ", "2", "0", "2", "0">>,
        from |-> [year |-> 2022, month |-> 12], to |-> [year |-> 2020, month |-> 1],
        open |-> FALSE],
       [txt |-> <<"1", "3", "/", "2", "0", "2", "0", " ", "-", " ", "1", "/", "2", "0", "2", "1">>,
        from |-> Unwritten, to |-> [year |-> 2021, month |-> 1],
        open |-> FALSE],
       [txt |-> <<"M", "a", "r", " ", "2", "0", "2", "0", " ", "-", " ", "P", "r", "e", "s", "e", "n", "t">>,
        from |-> [year |-> 2020, month |-> 3], to |-> Unwritten,
        open |-> TRUE],
       [txt |-> <<"2", "/", "2", "0", "2", "2", " ", "ENDASH", " ", "c", "u", "r", "r", "e", "n", "t">>,
        from |-> [year |-> 2022, month |-> 2], to |-> Unwritten,
        open |-> TRUE] >>

MaxRanges == 2

\* what comes before the section: nothing, or a phrase of years
ExpLeads ==
    {<<>>,
     <<"5", " ", "y", "e", "a", "r", "s", " ", "o", "f", " ", "e", "x", "p", "e", "r", "i", "e", "n", "c", "e", "LF">>}

\* lines that are a heading of the section
RealHeadings ==
    {<<"W", "o", "r", "k", " ", "E", "x", "p", "e", "r", "i", "e", "n", "c", "e", "LF">>,
     <<"E", "X", "P", "E", "R", "I", "E", "N", "C", "E", ":", "LF">>}

\* no line; a line that goes on past the word; a line that is indented
NoHeadings ==
    {<<>>,
     <<"E", "x", "p", "e", "r", "i", "e", "n", "c", "e", "d", " ", "i", "n", " ", "G", "o", "LF">>,
     <<" ", "E", "x", "p", "e", "r", "i", "e", "n", "c", "e", "LF">>}

\* what comes after the ranges: nothing, another section with a range of
\* its own, a phrase of years
ExpTails ==
    {<<>>,
     <<"E", "d", "u", "c", "a", "t", "i", "o", "n", "LF", "2", "0", "1", "0", " ", "-", " ", "2", "0", "1", "4", "LF">>,
     <<"3", "+", " ", "y", "e", "a", "r", "s", " ", "o", "f", " ", "e", "x", "p", "e", "r", "i", "e", "n", "c", "e", "LF">>}

ExpDocs ==
    [lead : ExpLeads, heading : RealHeadings \cup NoHeadings,
     ranges : SeqsUpTo(DOMAIN RangeForms, MaxRanges), tail : ExpTails]

\* the text of a document: the ranges one to a line under the heading
Render(doc) ==
    doc.lead \o doc.heading
    \o Concat([i \in DOMAIN doc.ranges |-> RangeForms[doc.ranges[i]].txt \o <<"LF">>], 1)
    \o doc.tail

\* readings of the clock
Nows == {[year |-> 2023, month |-> 6], [year |-> 2026, month |-> 11]}

ExperienceInputs == {[text |-> Render(d), now |-> n, doc |-> d] : d \in ExpDocs, n \in Nows}

InitExperience ==
    /\ pc = "start"
    /\ args \in ExperienceInputs
    /\ result = NoResult
    /\ IdleNormalize /\ IdleFlatten /\ IdleMatch /\ IdleAts

ExtractExperience ==
    /\ pc = "start"
    /\ result' = extract_experience(args.text, args.now)
    /\ pc' = "extracted"
    /\ UNCHANGED <<args, normVars, flatVars, matchVars, atsVars>>

NextExperience == ExtractExperience

SpecExperience == InitExperience /\ [][NextExperience]_vars

\* the months of a written range: those between its dates when to is after
\* from, none when it is not or when a date is no date
WrittenMonths(r, now) ==
    LET to == IF r.open THEN now ELSE r.to
    IN  IF r.from # Unwritten /\ to # Unwritten /\ Later(to, r.from)
        THEN (to.year - r.from.year) * MonthsInYear + (to.month - r.from.month)
        ELSE 0

RECURSIVE WrittenTotal(_, _, _)
\* the months of the ranges written under the heading, from the i-th on
WrittenTotal(ranges, i, now) ==
    IF i > Len(ranges) THEN 0
    ELSE WrittenMonths(RangeForms[ranges[i]], now) + WrittenTotal(ranges, i + 1, now)

HasHeading == args.doc.heading \in RealHeadings

\* 'Work Experience', 'Jan 2020 - Dec 2022', then an 'Education' heading
ExampleSection ==
    <<"W", "o", "r", "k", " ", "E", "x", "p", "e", "r", "i", "e", "n", "c", "e", "LF", "J", "a", "n", " ", "2", "0", "2", "0", " ", "-", " ", "D", "e", "c", " ", "2", "0", "2", "2", "LF", "E", "d", "u", "c", "a", "t", "i", "o", "n", "LF", "2", "0", "1", "0", " ", "-", " ", "2", "0", "1", "4", "LF">>

C19_YearsFromClosedRanges ==
    (pc = "extracted" /\ \A i \in DOMAIN args.doc.ranges : ~RangeForms[args.doc.ranges[i]].open) =>
        /\ (HasHeading /\ WrittenTotal(args.doc.ranges, 1, args.now) > 0) =>
              /\ "years" \in DOMAIN result
              /\ result.years = WrittenTotal(args.doc.ranges, 1, args.now) \div MonthsInYear
        /\ args.text = ExampleSection => "years" \in DOMAIN result /\ result.years = 2

PhraseLead == <<"5", " ", "y", "e", "a", "r", "s", " ", "o", "f", " ", "e", "x", "p", "e", "r", "i", "e", "n", "c", "e", "LF">>

PhraseTail == <<"3", "+", " ", "y", "e", "a", "r", "s", " ", "o", "f", " ", "e", "x", "p", "e", "r", "i", "e", "n", "c", "e", "LF">>

\* the number of the leftmost phrase of years the document holds, 0 for none
PhraseYears(doc) ==
    IF doc.lead = PhraseLead THEN 5 ELSE IF doc.tail = PhraseTail THEN 3 ELSE 0

\* C20: with no heading of the section, years is absent (None, not 0) and
\* has_section is false, even when the text holds a phrase of years; the
\* phrase gives the years only when a heading was found and no range of
\* dates added to the total.
C20_PhraseOnlyUnderHeading ==
    pc = "extracted" =>
        /\ ~HasHeading => "years" \notin DOMAIN result /\ result.has_section = FALSE
        /\ (HasHeading /\ WrittenTotal(args.doc.ranges, 1, args.now) = 0) =>
              /\ result.has_section = TRUE
              /\ IF PhraseYears(args.doc) # 0
                 THEN "years" \in DOMAIN result /\ result.years = PhraseYears(args.doc)
                 ELSE "years" \notin DOMAIN result
        /\ (HasHeading /\ WrittenTotal(args.doc.ranges, 1, args.now) > 0) =>
              /\ "years" \in DOMAIN result
              /\ result.years =
                    SumBlocks(args.text, ExpHeadings(args.text), args.now) \div MonthsInYear

\* no heading, a phrase of years and ranges of dates in the text: no years
C20_Witness ==
    /\ pc = "extracted"
    /\ ~HasHeading
    /\ args.doc.lead = PhraseLead
    /\ args.doc.ranges # <<>>
    /\ "years" \notin DOMAIN result

\* a heading, ranges that add nothing, and the phrase gives the years
C20_WitnessPhrase ==
    /\ pc = "extracted"
    /\ HasHeading
    /\ args.doc.ranges # <<>>
    /\ args.doc.tail = PhraseTail
    /\ "years" \in DOMAIN result
    /\ result.years = 3

\* a heading and a range of less than a year: 0 years, and no phrase used
C20_WitnessZero ==
    /\ pc = "extracted"
    /\ HasHeading
    /\ PhraseYears(args.doc) # 0
    /\ "years" \in DOMAIN result
    /\ result.years = 0

-----------------------------------------------------------------------------
(* parse_resume_text and calculate_ats_score                               *)

\* a field of ResumeData that is neither None nor empty
Truthy(field) == field # None /\ field # <<>>

\* if exp["years"]: data.no_of_years_experience = int(exp["years"])
SetExperience(profile, exp) ==
    IF "years" \in DOMAIN exp /\ exp.years # 0
    THEN profile @@ [no_of_years_experience |-> exp.years]
    ELSE profile

\* the experience step of parse_resume_text: the profile data, whose field
\* no_of_years_experience stays None (no such key here) unless exp["years"]
\* is truthy
parse_resume_text(text, now, data) ==
    SetExperience([email |-> data.email, mobile |-> extract_phone(text).mobile,
                   linkedin |-> data.linkedin, skills |-> data.skills,
                   education |-> data.education],
                  extract_experience(text, now))

\* resume_data.no_of_years_experience or 0
YearsOrZero(resume_data) ==
    IF "no_of_years_experience" \in DOMAIN resume_data
    THEN resume_data.no_of_years_experience ELSE 0

Issue(priority, category, message) ==
    [priority |-> priority, category |-> category, message |-> message]

ContactPoints == 5

SkillsCap == 20

SkillsBonus == 5

EducationPoints == 5

EducationCap == 10

ExperiencePointsPerYear == 4

ExperienceCap == 20

StructurePoints == 10

BasicReadabilityPoints == 10

MinSkills == 5

TitlePenalty == 2

SummaryPenalty == 3

ProductSkills ==
    {<<"a", "/", "b", " ", "t", "e", "s", "t", "i", "n", "g">>,
     <<"j", "o", "b", "s", " ", "t", "o", " ", "b", "e", " ", "d", "o", "n", "e">>,
     <<"g", "r", "o", "w", "t", "h", " ", "h", "a", "c", "k", "i", "n", "g">>,
     <<"o", "k", "r", "s">>,
     <<"k", "p", "i", "s">>}

ProductPrefix == <<"p", "r", "o", "d", "u", "c", "t", " ">>

EngineeringSkills ==
    {<<"p", "y", "t", "h", "o", "n">>,
     <<"j", "a", "v", "a", "s", "c", "r", "i", "p", "t">>,
     <<"j", "a", "v", "a">>,
     <<"s", "q", "l">>,
     <<"d", "o", "c", "k", "e", "r">>,
     <<"k", "u", "b", "e", "r", "n", "e", "t", "e", "s">>,
     <<"a", "w", "s">>,
     <<"r", "e", "a", "c", "t">>,
     <<"n", "o", "d", "e", ".", "j", "s">>}

\* creative_titles, in the order of the list
CreativeTitles ==
    <<<<"n", "i", "n", "j", "a">>,
     <<"g", "u", "r", "u">>,
     <<"r", "o", "c", "k", "s", "t", "a", "r">>,
     <<"w", "i", "z", "a", "r", "d">>,
     <<"h", "e", "r", "o">>>>

CreativeMessages ==
    <<"Avoid creative job titles like 'ninja'", "Avoid creative job titles like 'guru'",
      "Avoid creative job titles like 'rockstar'", "Avoid creative job titles like 'wizard'",
      "Avoid creative job titles like 'hero'">>

\* rf"\\b{re.escape(title)}\\b": in a raw string \\b is an escaped backslash
\* and the letter b, so the pattern is the title between two literal \b
TitlePattern(title) == <<"BACKSLASH", "b">> \o title \o <<"BACKSLASH", "b">>

SummaryWords ==
    {<<"s", "u", "m", "m", "a", "r", "y">>,
     <<"o", "b", "j", "e", "c", "t", "i", "v", "e">>,
     <<"p", "r", "o", "f", "i", "l", "e">>}

\* the titles found in the text, in the order of creative_titles
TitlesFound(original_text) ==
    SelectSeq([i \in DOMAIN CreativeTitles |-> i],
              LAMBDA i : Contains(Lower(original_text), TitlePattern(CreativeTitles[i])))

HasSummaryWord(original_text) ==
    \E w \in SummaryWords : Contains(Lower(original_text), w)

\* a variant that flags missing experience whenever the profile has no years
ProducedIssues_FlagWithoutYears(resume_data, original_text, env) ==
    (IF Truthy(resume_data.email) /\ ~env.email_ok
     THEN <<Issue("high", "contact", "Invalid email format")>> ELSE <<>>)
    \o (IF ~Truthy(resume_data.mobile)
        THEN <<Issue("high", "contact", "Missing phone number")>> ELSE <<>>)
    \o (IF ~Truthy(resume_data.linkedin)
        THEN <<Issue("medium", "contact", "Missing LinkedIn profile")>> ELSE <<>>)
    \o (IF Len(resume_data.skills) < MinSkills
        THEN <<Issue("high", "skills", "Insufficient skills listed")>> ELSE <<>>)
    \o (IF resume_data.education = <<>>
        THEN <<Issue("medium", "education", "Missing education information")>> ELSE <<>>)
    \o (IF YearsOrZero(resume_data) = 0
        THEN <<Issue("high", "experience", "Missing work experience")>> ELSE <<>>)
    \o (IF env.llm = "grammar"
        THEN <<Issue("medium", "readability", "Grammar/spelling issues detected")>> ELSE <<>>)
    \o [i \in DOMAIN TitlesFound(original_text) |->
           Issue("medium", "formatting", CreativeMessages[TitlesFound(original_text)[i]])]
    \o (IF ~HasSummaryWord(original_text)
        THEN <<Issue("high", "content", "Missing professional summary section")>> ELSE <<>>)

\* the issues in the order they are appended.  email_ok is what
\* email_validator.validate_email does with the address (it returns, or it
\* raises); llm is what the advisory model does: "unavailable" (model is
\* None), "raises", or feedback that mentions grammar or spelling
\* ("grammar") or does not ("plain").
ProducedIssues(resume_data, original_text, env) ==
    (IF Truthy(resume_data.email) /\ ~env.email_ok
     THEN <<Issue("high", "contact", "Invalid email format")>> ELSE <<>>)
    \o (IF ~Truthy(resume_data.mobile)
        THEN <<Issue("high", "contact", "Missing phone number")>> ELSE <<>>)
    \o (IF ~Truthy(resume_data.linkedin)
        THEN <<Issue("medium", "contact", "Missing LinkedIn profile")>> ELSE <<>>)
    \o (IF Len(resume_data.skills) < MinSkills
        THEN <<Issue("high", "skills", "Insufficient skills listed")>> ELSE <<>>)
    \o (IF resume_data.education = <<>>
        THEN <<Issue("medium", "education", "Missing education information")>> ELSE <<>>)
    \o (IF YearsOrZero(resume_data) = 0
           /\ ~extract_experience(original_text, env.now).has_section
        THEN <<Issue("high", "experience", "Missing work experience")>> ELSE <<>>)
    \o (IF env.llm = "grammar"
        THEN <<Issue("medium", "readability", "Grammar/spelling issues detected")>> ELSE <<>>)
    \o [i \in DOMAIN TitlesFound(original_text) |->
           Issue("medium", "formatting", CreativeMessages[TitlesFound(original_text)[i]])]
    \o (IF ~HasSummaryWord(original_text)
        THEN <<Issue("high", "content", "Missing professional summary section")>> ELSE <<>>)

\* priority_order.get(x["priority"], 4)
PriorityOrder(issue) ==
    CASE issue.priority = "high" -> 1
      [] issue.priority = "medium" -> 2
      [] issue.priority = "low" -> 3
      [] OTHER -> 4

\* a variant that leaves the issues in the order they were produced
SortIssues_Unsorted(issues) == issues

\* issues.sort(key=...): a stable sort on four keys
SortIssues(issues) ==
    SelectSeq(issues, LAMBDA x : PriorityOrder(x) = 1)
    \o SelectSeq(issues, LAMBDA x : PriorityOrder(x) = 2)
    \o SelectSeq(issues, LAMBDA x : PriorityOrder(x) = 3)
    \o SelectSeq(issues, LAMBDA x : PriorityOrder(x) = 4)

ScoreBreakdown(resume_data, env) ==
    LET lowered == {Lower(resume_data.skills[i]) : i \in DOMAIN resume_data.skills}
        product_flags == \E s \in lowered : StartsWith(s, ProductPrefix) \/ s \in ProductSkills
        engineering_flags == \E s \in lowered : s \in EngineeringSkills
    IN  [contact |-> (IF Truthy(resume_data.email) /\ env.email_ok THEN ContactPoints ELSE 0)
                     + (IF Truthy(resume_data.mobile) THEN ContactPoints ELSE 0)
                     + (IF Truthy(resume_data.linkedin) THEN ContactPoints ELSE 0),
         skills |-> Min(Len(resume_data.skills), SkillsCap)
                    + (IF product_flags /\ engineering_flags THEN SkillsBonus ELSE 0),
         education |-> Min(Len(resume_data.education) * EducationPoints, EducationCap),
         experience |-> Min(YearsOrZero(resume_data) * ExperiencePointsPerYear, ExperienceCap),
         structure |-> StructurePoints,
         readability |-> BasicReadabilityPoints]

calculate_ats_score(resume_data, original_text, env) ==
    LET b == ScoreBreakdown(resume_data, env)
        sum == b.contact + b.skills + b.education + b.experience + b.structure + b.readability
        total_penalty == TitlePenalty * Len(TitlesFound(original_text))
                         + (IF HasSummaryWord(original_text) THEN 0 ELSE SummaryPenalty)
    IN  [total_score |-> Max(0, sum - total_penalty),
         breakdown |-> b,
         issues |-> SortIssues(ProducedIssues(resume_data, original_text, env)),
         recommendations |-> IF env.llm \in {"grammar", "plain"}
                             THEN <<"AI Analysis">> ELSE <<>>]

\* the documents of the profile pipeline: one range at most under the heading
ProfileDocs == {d \in ExpDocs : Len(d.ranges) <= 1}

\* the fields of the profile that the steps modelled here do not compute
ProfileData ==
    {[email |-> None, linkedin |-> None, skills |-> <<>>, education |-> <<>>],
     [email |-> <<"a", "@", "b", ".", "c", "o">>, linkedin |-> <<"h", "t", "t", "p", "s", ":", "/", "/", "w", "w", "w", ".", "l", "i", "n", "k", "e", "d", "i", "n", ".", "c", "o", "m", "/", "i", "n", "/", "a">>,
      skills |-> <<<<"P", "y", "t", "h", "o", "n">>,
     <<"P", "r", "o", "d", "u", "c", "t", " ", "S", "t", "r", "a", "t", "e", "g", "y">>,
     <<"S", "q", "l">>,
     <<"G", "o">>,
     <<"R", "u", "s", "t">>>>,
      education |-> <<"Bachelor">>]}

ProfileEnvs == [llm : {"unavailable", "grammar"}, email_ok : {TRUE}]

ProfileInputs ==
    {[text |-> Render(d), now |-> n, doc |-> d, data |-> x, env |-> e] :
        d \in ProfileDocs, n \in Nows, x \in ProfileData, e \in ProfileEnvs}

InitProfile ==
    /\ pc = "start"
    /\ args \in ProfileInputs
    /\ result = NoResult
    /\ IdleNormalize /\ IdleFlatten /\ IdleMatch /\ IdleAts

\* resume_data = parse_resume_text(text)
ParseResume ==
    /\ pc = "start"
    /\ result' = [resume_data |-> parse_resume_text(args.text, args.now, args.data)]
    /\ pc' = "parsed"
    /\ UNCHANGED <<args, normVars, flatVars, matchVars, atsVars>>

\* ats_result = calculate_ats_score(resume_data, text)
CalculateScore ==
    /\ pc = "parsed"
    /\ result' = [resume_data |-> result.resume_data,
                  ats_result |-> calculate_ats_score(result.resume_data, args.text,
                                    [llm |-> args.env.llm, email_ok |-> args.env.email_ok,
                                     now |-> args.now])]
    /\ pc' = "scored"
    /\ UNCHANGED <<args, normVars, flatVars, matchVars, atsVars>>

NextProfile == ParseResume \/ CalculateScore

SpecProfile == InitProfile /\ [][NextProfile]_vars

\* the months of the ranges written under the heading
Written == WrittenTotal(args.doc.ranges, 1, args.now)

\* the phrase of years gives the years of the document
PhraseGiven == HasHeading /\ Written = 0 /\ PhraseYears(args.doc) # 0

MissingExperience == Issue("high", "experience", "Missing work experience")

\* C21: absent and zero experience stay distinct up to the profile: with a
\* section whose ranges total fewer than 12 months the profile's years of
\* experience is 0, and it is absent only when the span was not determined.
C21_ZeroYearsInProfile ==
    pc \in {"parsed", "scored"} =>
        /\ (HasHeading /\ Written > 0 /\ Written < MonthsInYear) =>
              /\ "no_of_years_experience" \in DOMAIN result.resume_data
              /\ result.resume_data.no_of_years_experience = 0
        /\ "no_of_years_experience" \notin DOMAIN result.resume_data =>
              "years" \notin DOMAIN extract_experience(args.text, args.now)

\* what holds: the profile carries the years only when they are 1 or more
C21_ZeroYearsDropped ==
    pc \in {"parsed", "scored"} =>
        ("no_of_years_experience" \in DOMAIN result.resume_data
            <=> /\ "years" \in DOMAIN extract_experience(args.text, args.now)
                /\ extract_experience(args.text, args.now).years >= 1)

\* the issue is in the list of the result
Flagged == \E i \in DOMAIN result.ats_result.issues : result.ats_result.issues[i] = MissingExperience

C22_WitnessHeading ==
    /\ pc = "scored"
    /\ HasHeading
    /\ args.doc.ranges = <<>>
    /\ "no_of_years_experience" \notin DOMAIN result.resume_data
    /\ ~Flagged

-----------------------------------------------------------------------------
(* calculate_ats_score on any profile                                      *)

FiveSkills ==
    <<<<"P", "y", "t", "h", "o", "n">>,
     <<"P", "r", "o", "d", "u", "c", "t", " ", "S", "t", "r", "a", "t", "e", "g", "y">>,
     <<"S", "q", "l">>,
     <<"G", "o">>,
     <<"R", "u", "s", "t">>>>

\* profiles with and without the years of experience
ScoreProfiles ==
    [email : {None, <<"a", "@", "b", ".", "c", "o">>}, mobile : {None, <<"+", "1", "5", "5", "5", "1", "2", "3", "4", "5", "6", "7">>},
     linkedin : {None, <<"h", "t", "t", "p", "s", ":", "/", "/", "w", "w", "w", ".", "l", "i", "n", "k", "e", "d", "i", "n", ".", "c", "o", "m", "/", "i", "n", "/", "a">>},
     skills : {<<>>, FiveSkills}, education : {<<>>, <<"Bachelor">>}]
    \cup [email : {None, <<"a", "@", "b", ".", "c", "o">>}, mobile : {None},
          linkedin : {None, <<"h", "t", "t", "p", "s", ":", "/", "/", "w", "w", "w", ".", "l", "i", "n", "k", "e", "d", "i", "n", ".", "c", "o", "m", "/", "i", "n", "/", "a">>},
          skills : {<<>>, FiveSkills}, education : {<<>>},
          no_of_years_experience : {0, 3, 7}]

\* nothing; a summary; titles between literal \b; titles as words; a heading
ScoreTexts ==
    {<<>>,
     <<"S", "u", "m", "m", "a", "r", "y">>,
     <<"BACKSLASH", "b", "n", "i", "n", "j", "a", "BACKSLASH", "b", " ", "a", "n", "d", " ", "BACKSLASH", "b", "H", "E", "R", "O", "BACKSLASH", "b">>,
     <<"n", "i", "n", "j", "a", " ", "w", "i", "z", "a", "r", "d", " ", "P", "r", "o", "f", "i", "l", "e">>,
     <<"E", "x", "p", "e", "r", "i", "e", "n", "c", "e", "LF", "BACKSLASH", "b", "g", "u", "r", "u", "BACKSLASH", "b">>}

ScoreEnvs ==
    [llm : {"unavailable", "raises", "grammar", "plain"}, email_ok : BOOLEAN,
     now : {[year |-> 2026, month |-> 11]}]

ScoreInputs == [resume_data : ScoreProfiles, original_text : ScoreTexts, env : ScoreEnvs]

InitScore ==
    /\ pc = "start"
    /\ args \in ScoreInputs
    /\ result = NoResult
    /\ IdleNormalize /\ IdleFlatten /\ IdleMatch /\ IdleAts

BasicScore ==
    /\ pc = "start"
    /\ result' = [ats_result |->
                     calculate_ats_score(args.resume_data, args.original_text, args.env)]
    /\ pc' = "scored"
    /\ UNCHANGED <<args, normVars, flatVars, matchVars, atsVars>>

NextScore == BasicScore

SpecScore == InitScore /\ [][NextScore]_vars

\* the issues of one priority, in the order of the list
OfPriority(issues, p) == SelectSeq(issues, LAMBDA x : x.priority = p)

Priorities == {"high", "medium", "low"}

\* the issues as they were produced, before the sort
Produced == ProducedIssues(args.resume_data, args.original_text, args.env)

\* C24: in the list returned by calculate_ats_score every high issue comes
\* before every medium issue, which comes before every low issue, and the
\* issues of one priority keep the order in which they were produced.
C24_IssuesSortedByPriority ==
    pc = "scored" =>
        LET issues == result.ats_result.issues
        IN  /\ \A i, j \in DOMAIN issues :
                  i < j => PriorityOrder(issues[i]) <= PriorityOrder(issues[j])
            /\ Len(issues) = Len(Produced)
            /\ \A p \in Priorities : OfPriority(issues, p) = OfPriority(Produced, p)

\* a medium issue was produced before a high one, and both are in the list
C24_Witness ==
    /\ pc = "scored"
    /\ \E i, j \in DOMAIN Produced :
          i < j /\ Produced[i].priority = "medium" /\ Produced[j].priority = "high"
    /\ Len(OfPriority(result.ats_result.issues, "medium")) >= 3
    /\ Len(OfPriority(result.ats_result.issues, "high")) >= 3

-----------------------------------------------------------------------------
(* _extract_skills                                                         *)

\* the headings of section_patterns, in the order of the alternation
SkillHeads ==
    <<<<"s", "k", "i", "l", "l", "s">>,
     <<"t", "e", "c", "h", "n", "i", "c", "a", "l", " ", "s", "k", "i", "l", "l", "s">>,
     <<"c", "o", "r", "e", " ", "c", "o", "m", "p", "e", "t", "e", "n", "c", "i", "e", "s">>,
     <<"c", "o", "m", "p", "e", "t", "e", "n", "c", "i", "e", "s">>,
     <<"a", "r", "e", "a", "s", " ", "o", "f", " ", "e", "x", "p", "e", "r", "t", "i", "s", "e">>>>

\* {1,6}: the lines of a body
MaxBodyLines == 6

MinSkillLen == 2

MaxSkillLen == 60

\* [,\u2022\-|\n]
TokenSeps == {",", "BULLET", "-", "|", "LF"}

RECURSIVE BodyEnd(_, _, _)
\* (?:.+\n?){1,n} from b on: the position after at most n lines that are not empty
BodyEnd(t, b, n) ==
    IF n = 0 \/ b > Len(t) \/ t[b] = "LF" THEN b
    ELSE LET ends == {l \in b..Len(t) : t[l] = "LF"}
         IN  IF ends = {} THEN Len(t) + 1 ELSE BodyEnd(t, Least(ends) + 1, n - 1)

\* one attempt of the section pattern at s, where (?:^|\n) matches: the body
\* [b, e), or NoMatch. A body that starts only after the pattern gave back
\* white space holds no token of two characters, and nothing follows it.
SectionAt(t, s) ==
    LET q == SkipRun(t, SpaceChars, IF At(t, s) = "LF" THEN s + 1 ELSE s)
        heads == {k \in DOMAIN SkillHeads : MatchesLit(t, q, SkillHeads[k])}
    IN  IF ~(s = 1 \/ At(t, s) = "LF") \/ heads = {} THEN NoMatch
        ELSE LET h == q + Len(SkillHeads[Least(heads)])
                 r == SkipRun(t, SpaceChars, h)
                 b == IF At(t, r) = ":" THEN SkipRun(t, SpaceChars, r + 1)
                      ELSE IF \E l \in h..(r - 1) : t[l] = "LF" THEN r ELSE 0
             IN  IF b = 0 \/ b > Len(t) THEN NoMatch
                 ELSE [b |-> b, e |-> BodyEnd(t, b, MaxBodyLines)]

RECURSIVE SectionBodies(_, _)
\* re.finditer(sp, text, re.IGNORECASE) from pos on: the bodies, left to right
SectionBodies(t, pos) ==
    IF pos > Len(t) THEN <<>>
    ELSE LET m == SectionAt(t, pos)
         IN  IF m = NoMatch THEN SectionBodies(t, pos + 1)
             ELSE <<SubSeq(t, m.b, m.e - 1)>> \o SectionBodies(t, m.e)

RECURSIVE SplitTokens(_, _, _)
\* re.split(r"[,\u2022\-|\n]", body)
SplitTokens(body, lo, i) ==
    IF i > Len(body) THEN <<SubSeq(body, lo, Len(body))>>
    ELSE IF body[i] \in TokenSeps
         THEN <<SubSeq(body, lo, i - 1)>> \o SplitTokens(body, i + 1, i + 1)
         ELSE SplitTokens(body, lo, i + 1)

\* tok_norm
TokNorm(tok) == CollapseWs(Lower(Strip(tok)))

\* the tokens of one body that are added to skills_found, in order
BodyTokens(body) ==
    LET tokens == SplitTokens(body, 1, 1)
    IN  SelectSeq([k \in DOMAIN tokens |-> TokNorm(tokens[k])],
                  LAMBDA tok : MinSkillLen <= Len(tok) /\ Len(tok) <= MaxSkillLen)

\* the tokens of all the bodies, in order
SectionTokens(text) ==
    LET bodies == SectionBodies(text, 1)
    IN  Concat([k \in DOMAIN bodies |-> BodyTokens(bodies[k])], 1)

\* keywords
SkillKeywords ==
    <<<<"p", "y", "t", "h", "o", "n">>,
     <<"j", "a", "v", "a", "s", "c", "r", "i", "p", "t">>,
     <<"j", "a", "v", "a">>,
     <<"c", "+", "+">>,
     <<"c", "#">>,
     <<"p", "h", "p">>,
     <<"r", "u", "b", "y">>,
     <<"g", "o">>,
     <<"r", "u", "s", "t">>,
     <<"r", "e", "a", "c", "t">>,
     <<"a", "n", "g", "u", "l", "a", "r">>,
     <<"v", "u", "e">>,
     <<"n", "o", "d", "e", ".", "j", "s">>,
     <<"d", "j", "a", "n", "g", "o">>,
     <<"f", "l", "a", "s", "k">>,
     <<"s", "p", "r", "i", "n", "g">>,
     <<"d", "o", "c", "k", "e", "r">>,
     <<"k", "u", "b", "e", "r", "n", "e", "t", "e", "s">>,
     <<"a", "w", "s">>,
     <<"a", "z", "u", "r", "e">>,
     <<"g", "c", "p">>,
     <<"s", "q", "l">>,
     <<"m", "o", "n", "g", "o", "d", "b">>,
     <<"r", "e", "d", "i", "s">>,
     <<"g", "i", "t">>,
     <<"j", "e", "n", "k", "i", "n", "s">>,
     <<"a", "g", "i", "l", "e">>,
     <<"s", "c", "r", "u", "m">>,
     <<"m", "a", "c", "h", "i", "n", "e", " ", "l", "e", "a", "r", "n", "i", "n", "g">>,
     <<"a", "i">>,
     <<"d", "a", "t", "a", " ", "s", "c", "i", "e", "n", "c", "e">>,
     <<"t", "a", "b", "l", "e", "a", "u">>,
     <<"p", "o", "w", "e", "r", " ", "b", "i">>,
     <<"e", "x", "c", "e", "l">>,
     <<"w", "o", "r", "d">>,
     <<"p", "o", "w", "e", "r", "p", "o", "i", "n", "t">>,
     <<"g", "r", "a", "p", "h", "q", "l">>,
     <<"r", "e", "s", "t">>,
     <<"m", "i", "c", "r", "o", "s", "e", "r", "v", "i", "c", "e", "s">>,
     <<"s", "p", "a", "r", "k">>,
     <<"h", "a", "d", "o", "o", "p">>,
     <<"p", "r", "o", "d", "u", "c", "t", " ", "m", "a", "n", "a", "g", "e", "m", "e", "n", "t">>,
     <<"p", "r", "o", "d", "u", "c", "t", " ", "s", "t", "r", "a", "t", "e", "g", "y">>,
     <<"p", "r", "o", "d", "u", "c", "t", " ", "l", "e", "a", "d", "e", "r", "s", "h", "i", "p">>,
     <<"p", "r", "o", "d", "u", "c", "t", " ", "r", "o", "a", "d", "m", "a", "p">>,
     <<"r", "o", "a", "d", "m", "a", "p", "p", "i", "n", "g">>,
     <<"u", "s", "e", "r", " ", "r", "e", "s", "e", "a", "r", "c", "h">>,
     <<"u", "s", "e", "r", " ", "i", "n", "t", "e", "r", "v", "i", "e", "w", "s">>,
     <<"a", "/", "b", " ", "t", "e", "s", "t", "i", "n", "g">>,
     <<"a", "b", " ", "t", "e", "s", "t", "i", "n", "g">>,
     <<"s", "p", "l", "i", "t", " ", "t", "e", "s", "t", "i", "n", "g">>,
     <<"e", "x", "p", "e", "r", "i", "m", "e", "n", "t", " ", "d", "e", "s", "i", "g", "n">>,
     <<"e", "x", "p", "e", "r", "i", "m", "e", "n", "t", "a", "t", "i", "o", "n">>,
     <<"g", "r", "o", "w", "t", "h", " ", "h", "a", "c", "k", "i", "n", "g">>,
     <<"g", "r", "o", "w", "t", "h", " ", "s", "t", "r", "a", "t", "e", "g", "y">>,
     <<"a", "c", "t", "i", "v", "a", "t", "i", "o", "n">>,
     <<"r", "e", "t", "e", "n", "t", "i", "o", "n">>,
     <<"m", "o", "n", "e", "t", "i", "z", "a", "t", "i", "o", "n">>,
     <<"p", "r", "i", "c", "i", "n", "g">>,
     <<"s", "e", "g", "m", "e", "n", "t", "a", "t", "i", "o", "n">>,
     <<"o", "k", "r", "s">>,
     <<"k", "p", "i", "s">>,
     <<"a", "n", "a", "l", "y", "t", "i", "c", "s">>,
     <<"m", "i", "x", "p", "a", "n", "e", "l">>,
     <<"a", "m", "p", "l", "i", "t", "u", "d", "e">>,
     <<"g", "o", "o", "g", "l", "e", " ", "a", "n", "a", "l", "y", "t", "i", "c", "s">>,
     <<"a", "g", "i", "l", "e", " ", "m", "e", "t", "h", "o", "d", "o", "l", "o", "g", "y">>,
     <<"s", "t", "a", "k", "e", "h", "o", "l", "d", "e", "r", " ", "m", "a", "n", "a", "g", "e", "m", "e", "n", "t">>,
     <<"f", "e", "a", "t", "u", "r", "e", " ", "p", "r", "i", "o", "r", "i", "t", "i", "z", "a", "t", "i", "o", "n">>,
     <<"i", "m", "p", "a", "c", "t", " ", "m", "a", "p", "p", "i", "n", "g">>,
     <<"j", "o", "b", "s", " ", "t", "o", " ", "b", "e", " ", "d", "o", "n", "e">>,
     <<"j", "t", "b", "d">>,
     <<"p", "r", "o", "d", "u", "c", "t", " ", "m", "g", "m", "t">>,
     <<"p", "r", "o", "d", "u", "c", "t", " ", "o", "p", "s">>,
     <<"g", "r", "o", "w", "t", "h", " ", "p", "r", "o", "d", "u", "c", "t">>,
     <<"p", "r", "o", "d", "u", "c", "t", " ", "d", "i", "s", "c", "o", "v", "e", "r", "y">>,
     <<"r", "o", "a", "d", "m", "a", "p", " ", "p", "l", "a", "n", "n", "i", "n", "g">>,
     <<"e", "x", "p", "e", "r", "i", "m", "e", "n", "t", "a", "t", "i", "o", "n", " ", "p", "l", "a", "t", "f", "o", "r", "m">>>>

\* the keywords found in the lower-cased text, in the order of the list
KeywordHits(text) ==
    LET tl == Lower(text)
    IN  SelectSeq(SkillKeywords, LAMBDA kw : Contains(tl, kw))

\* the upper-case letter of every lower-case letter
UpperOf == [c \in LowerSet |-> UpperAZ[CHOOSE i \in DOMAIN LowerAZ : LowerAZ[i] = c]]

\* str.upper() on one character
UpperChar(c) == IF c \in LowerSet THEN UpperOf[c] ELSE c

\* str.upper()
Upper(s) == [i \in DOMAIN s |-> UpperChar(s[i])]

\* str.capitalize()
Capitalize(w) == [i \in DOMAIN w |-> IF i = 1 THEN UpperChar(w[i]) ELSE LowerChar(w[i])]

RECURSIVE CapPieces(_, _, _)
\* re.split(r"(\b)", s): the pieces between the word boundaries, and the
\* empty string the group captures at every boundary
CapPieces(s, lo, i) ==
    IF i > Len(s) + 1 THEN <<SubSeq(s, lo, Len(s))>>
    ELSE IF WordBoundary(s, i)
         THEN <<SubSeq(s, lo, i - 1), <<>>>> \o CapPieces(s, i, i + 1)
         ELSE CapPieces(s, lo, i + 1)

RECURSIVE JoinSpace(_, _)
\* " ".join(ws[i:])
JoinSpace(ws, i) ==
    IF i > Len(ws) THEN <<>>
    ELSE IF i = Len(ws) THEN ws[i]
    ELSE ws[i] \o <<" ">> \o JoinSpace(ws, i + 1)

\* the acronyms cap keeps in upper case
CapAcronyms == {<<"O", "K", "R", "S">>,
     <<"K", "P", "I", "S">>,
     <<"S", "Q", "L">>,
     <<"A", "I">>}

\* cap
cap(s) ==
    IF Upper(s) \in CapAcronyms THEN Upper(s)
    ELSE LET ws == CapPieces(s, 1, 1)
         IN  JoinSpace([k \in DOMAIN ws |->
                           IF ~IsUpperStr(ws[k]) THEN Capitalize(ws[k]) ELSE ws[k]], 1)

\* mapping
SkillMapping ==
    {<<<<"a", "b", " ", "t", "e", "s", "t", "i", "n", "g">>, <<"A", "/", "B", " ", "T", "e", "s", "t", "i", "n", "g">>>>,
     <<<<"a", "/", "b", " ", "t", "e", "s", "t", "i", "n", "g">>, <<"A", "/", "B", " ", "T", "e", "s", "t", "i", "n", "g">>>>,
     <<<<"j", "t", "b", "d">>, <<"J", "o", "b", "s", " ", "T", "o", " ", "B", "e", " ", "D", "o", "n", "e">>>>,
     <<<<"o", "k", "r", "s">>, <<"O", "K", "R", "s">>>>,
     <<<<"k", "p", "i", "s">>, <<"K", "P", "I", "s">>>>,
     <<<<"a", "i">>, <<"A", "I">>>>,
     <<<<"p", "r", "o", "d", "u", "c", "t", " ", "m", "g", "m", "t">>, <<"P", "r", "o", "d", "u", "c", "t", " ", "M", "a", "n", "a", "g", "e", "m", "e", "n", "t">>>>,
     <<<<"p", "r", "o", "d", "u", "c", "t", " ", "o", "p", "s">>, <<"P", "r", "o", "d", "u", "c", "t", " ", "O", "p", "e", "r", "a", "t", "i", "o", "n", "s">>>>,
     <<<<"g", "r", "o", "w", "t", "h", " ", "p", "r", "o", "d", "u", "c", "t">>, <<"G", "r", "o", "w", "t", "h", " ", "P", "r", "o", "d", "u", "c", "t">>>>,
     <<<<"r", "o", "a", "d", "m", "a", "p", " ", "p", "l", "a", "n", "n", "i", "n", "g">>, <<"P", "r", "o", "d", "u", "c", "t", " ", "R", "o", "a", "d", "m", "a", "p">>>>}

\* mapping.get(s_norm, cap(s_norm))
Mapped(s) ==
    LET s_norm == CollapseWs(Strip(s))
    IN  IF \E p \in SkillMapping : p[1] = s_norm
        THEN (CHOOSE p \in SkillMapping : p[1] = s_norm)[2]
        ELSE cap(s_norm)

\* the code point of a character
CodePoint(c) ==
    CASE c = "TAB" -> 9
      [] c = "LF" -> 10
      [] c = "CR" -> 13
      [] c = " " -> 32
      [] c = "#" -> 35
      [] c = "+" -> 43
      [] c = "," -> 44
      [] c = "-" -> 45
      [] c = "." -> 46
      [] c = "/" -> 47
      [] c \in Digits -> 48 + DigitValue[c]
      [] c = ":" -> 58
      [] c \in UpperSet -> 64 + (CHOOSE i \in DOMAIN UpperAZ : UpperAZ[i] = c)
      [] c = "_" -> 95
      [] c \in LowerSet -> 96 + (CHOOSE i \in DOMAIN LowerAZ : LowerAZ[i] = c)
      [] c = "|" -> 124
      [] c = "NBSP" -> 160
      [] c = "ENDASH" -> 8211
      [] c = "EMDASH" -> 8212
      [] c = "BULLET" -> 8226

RECURSIVE StrLess(_, _, _)
\* a[i:] < b[i:] as Python compares strings, by code point
StrLess(a, b, i) ==
    IF i > Len(b) THEN FALSE
    ELSE IF i > Len(a) THEN TRUE
    ELSE IF a[i] = b[i] THEN StrLess(a, b, i + 1)
    ELSE CodePoint(a[i]) < CodePoint(b[i])

RECURSIVE Sorted(_)
\* sorted(xs) for a set of strings
Sorted(xs) ==
    IF xs = {} THEN <<>>
    ELSE LET lo == CHOOSE x \in xs : \A y \in xs \ {x} : StrLess(x, y, 1)
         IN  <<lo>> \o Sorted(xs \ {lo})

\* skills_found: the section pass, then the dictionary pass
SkillsFound(text) == Range(SectionTokens(text)) \cup Range(KeywordHits(text))

\* mapped
MappedSkills(text) == {Mapped(s) : s \in SkillsFound(text)}

\* {x.lower(): x for x in mapped}.values(): one value for every key; which
\* one of several the dictionary keeps depends on the order of the set
KeptChoices(text) ==
    LET mapped == MappedSkills(text)
    IN  {kept \in SUBSET mapped :
            \A x \in mapped : Cardinality({y \in kept : Lower(y) = Lower(x)}) = 1}

RECURSIVE FirstOfKey(_, _)
\* the values of xs[i:] whose lower-case key was not seen before
FirstOfKey(xs, i) ==
    IF i > Len(xs) THEN <<>>
    ELSE IF \E j \in 1..(i - 1) : Lower(xs[j]) = Lower(xs[i]) THEN FirstOfKey(xs, i + 1)
    ELSE <<xs[i]>> \o FirstOfKey(xs, i + 1)

\* a variant that keeps the skills in the order in which they were found
extract_skills_FirstSeen(text, kept) ==
    LET seen == SectionTokens(text) \o KeywordHits(text)
    IN  FirstOfKey([k \in DOMAIN seen |-> Mapped(seen[k])], 1)

\* _extract_skills
extract_skills(text, kept) == Sorted(kept)

\* the skills as they are written under the heading
WrittenSkills ==
    {<<"Z", "e", "t", "a">>,
     <<"a", "l", "p", "h", "a">>,
     <<"P", "Y", "T", "H", "O", "N">>,
     <<"p", "y", "t", "h", "o", "n">>,
     <<"a", "b", " ", "t", "e", "s", "t", "i", "n", "g">>,
     <<"A", "/", "B", " ", "T", "e", "s", "t", "i", "n", "g">>,
     <<"s", "q", "l">>}

MaxSkills == 3

RECURSIVE SkillLists(_)
\* the lists of n different written skills
SkillLists(n) ==
    IF n = 0 THEN {<<>>}
    ELSE UNION {{Append(l, w) : w \in WrittenSkills \ Range(l)} : l \in SkillLists(n - 1)}

SkillLeads == {<<>>,
     <<"I", " ", "u", "s", "e", " ", "r", "u", "s", "t", " ", "a", "n", "d", " ", "K", "P", "I", "s", ".", "LF">>}

\* three headings of the pattern, and a line that is none
SkillHeadings == {<<"S", "k", "i", "l", "l", "s", ":", " ">>,
     <<"T", "E", "C", "H", "N", "I", "C", "A", "L", " ", "S", "K", "I", "L", "L", "S", "LF">>,
     <<"C", "o", "m", "p", "e", "t", "e", "n", "c", "i", "e", "s", " ", ":", "LF", "-", " ">>,
     <<"M", "y", " ", "s", "k", "i", "l", "l", "s", ":", " ">>}

SkillSeps == {<<",", " ">>,
     <<"LF", "BULLET", " ">>}

SkillTails == {<<"LF">>,
     <<"LF", "LF", "I", " ", "l", "i", "k", "e", " ", "g", "o", ".", "LF">>}

SkillDocs ==
    [lead : SkillLeads, heading : SkillHeadings, sep : SkillSeps, tail : SkillTails,
     skills : UNION {SkillLists(n) : n \in 0..MaxSkills}]

RECURSIVE JoinWith(_, _, _)
\* sep.join(ws[i:])
JoinWith(ws, sep, i) ==
    IF i > Len(ws) THEN <<>>
    ELSE IF i = Len(ws) THEN ws[i]
    ELSE ws[i] \o sep \o JoinWith(ws, sep, i + 1)

RenderSkills(doc) ==
    doc.lead \o doc.heading \o JoinWith(doc.skills, doc.sep, 1) \o doc.tail

\* texts that try the corners of the section pattern: two sections, a body of
\* more than six lines, an empty line, a heading without a body
SkillCorners ==
    {<<"S", "k", "i", "l", "l", "s", "LF", "LF", "P", "y", "t", "h", "o", "n", "LF", "LF", "s", "k", "i", "l", "l", "s", ":", " ", "g", "o", " ", "l", "a", "n", "g">>,
     <<"S", "k", "i", "l", "l", "s", ":">>,
     <<"S", "k", "i", "l", "l", "s", "LF", ":">>,
     <<"S", "k", "i", "l", "l", "s", ":", " ", "LF">>,
     <<"S", "k", "i", "l", "l", "s", " ", "a", ",", " ", "b", "LF">>,
     <<"x", "LF", " ", " ", "A", "r", "e", "a", "s", " ", "o", "f", " ", "E", "x", "p", "e", "r", "t", "i", "s", "e", " ", ":", " ", " ", "o", "n", "e", "|", "t", "w", "o", " ", "-", " ", "t", "h", "r", "e", "e", "LF", "C", "o", "r", "e", " ", "C", "o", "m", "p", "e", "t", "e", "n", "c", "i", "e", "s", "LF", "r", "2", "LF", "d", "3", "LF", "d", "4", "LF", "d", "5", "LF", "d", "6", "LF", "d", "7", "LF">>,
     <<"S", "k", "i", "l", "l", "s", ":", "LF", "1", "a", "LF", "2", "a", "LF", "3", "a", "LF", "4", "a", "LF", "5", "a", "LF", "6", "a", "LF", "LF", "T", "e", "c", "h", "n", "i", "c", "a", "l", " ", "s", "k", "i", "l", "l", "s", "LF", "z", "9", ",", " ", "c", "+", "+", "LF">>,
     <<"c", "o", "r", "e", " ", "c", "o", "m", "p", "e", "t", "e", "n", "c", "i", "e", "s", "LF", "n", "o", "d", "e", ".", "j", "s", "TAB", "a", "n", "d", "TAB", "c", "#", ",", " ", "K", " ", " ", "P", " ", " ", "I", "LF">>,
     <<"S", "k", "i", "l", "l", "s", ":", " ", "O", "K", "R", "S", ",", " ", "o", "k", "r", "s", ",", " ", "j", "t", "b", "d", ",", " ", "J", "o", "b", "s", " ", "t", "o", " ", "b", "e", " ", "d", "o", "n", "e", "LF">>}

SkillInputs ==
    {[text |-> RenderSkills(d), doc |-> d] : d \in SkillDocs}
    \cup {[text |-> t, doc |-> EmptyDoc] : t \in SkillCorners}

InitSkills ==
    /\ pc = "start"
    /\ args \in SkillInputs
    /\ result = NoResult
    /\ IdleNormalize /\ IdleFlatten /\ IdleMatch /\ IdleAts

ExtractSkills ==
    /\ pc = "start"
    /\ \E kept \in KeptChoices(args.text) :
          result' = [skills |-> extract_skills(args.text, kept)]
    /\ pc' = "extracted"
    /\ UNCHANGED <<args, normVars, flatVars, matchVars, atsVars>>

NextSkills == ExtractSkills

SpecSkills == InitSkills /\ [][NextSkills]_vars

\* C23: _extract_skills returns the union of the section pass and the
\* dictionary pass after canonicalization, without two skills that are equal
\* ignoring case, in the order in which the skills were first seen and with
\* the casing first seen for every key.
C23_SkillsInFirstSeenOrder ==
    pc = "extracted" =>
        result.skills = extract_skills_FirstSeen(args.text, MappedSkills(args.text))

\* what holds instead: the list holds the canonical form of every skill
\* found, no two equal ignoring case, in ascending order of code points
C23_SkillsSorted ==
    pc = "extracted" =>
        LET skills == result.skills
        IN  /\ Range(skills) = MappedSkills(args.text)
            /\ \A i, j \in DOMAIN skills : i # j => Lower(skills[i]) # Lower(skills[j])
            /\ \A i, j \in DOMAIN skills : i < j => StrLess(skills[i], skills[j], 1)

-----------------------------------------------------------------------------
(* ats_score on documents that share the preloaded configuration           *)

\* a variant that stores the normalised keywords back into the document
ConfigAfterScore_KeywordsStored(cv_text, industry, lang_cfg, prof_cfg, ind_cfg) ==
    [lang_cfg |-> IF "general_keywords" \in DOMAIN lang_cfg
                  THEN [lang_cfg EXCEPT !.general_keywords = GeneralKeywords(lang_cfg)]
                  ELSE lang_cfg,
     prof_cfg |-> prof_cfg,
     ind_cfg |-> ind_cfg]

\* the configuration objects after a call of ats_score: the function reads
\* them with get, items and values, and assigns to none of them
ConfigAfterScore(cv_text, industry, lang_cfg, prof_cfg, ind_cfg) ==
    [lang_cfg |-> lang_cfg, prof_cfg |-> prof_cfg, ind_cfg |-> ind_cfg]

\* ATS_LANG_CFG: with keywords in upper case, without dictionaries
SharedLangs ==
    {[Restrict(LangFull, LangSections \ {"spelling"})
         EXCEPT !.general_keywords = << <<"K","a","f">>, <<"Q">> >>],
     Restrict(LangFull, {"grammar"})}

\* ATS_PROF_CFG
SharedProfs == {ProfFull, Restrict(ProfFull, {"weak_language"})}

SharedInds == {DictNode(<<<<"k">>>>, <<StrNode(<<"K","a","f">>)>>)}

SharedDocs == [cv_text : SectionTexts \ {<<>>}, industry : {<<"x">>, <<"y">>}]

\* the requests that are served side by side
Calls == {1, 2}

\* the calls of ats_score that are begun in a behaviour
MaxCalls == 3

SharedInputs ==
    [lang_cfg : SharedLangs, prof_cfg : SharedProfs, ind_cfg : SharedInds,
     docs : {d \in [Calls -> SharedDocs] : d[1] # d[2] /\ d[1].industry = <<"x">>}]

\* the calls that are under way
UnderWay(at) == {i \in Calls : at[i] = "scoring"}

PcOf(at) ==
    IF UnderWay(at) = {} THEN "idle" ELSE IF UnderWay(at) = Calls THEN "both" ELSE "one"

InitShared ==
    /\ pc = "idle"
    /\ args \in SharedInputs
    /\ result = [lang_cfg |-> args.lang_cfg, prof_cfg |-> args.prof_cfg,
                 ind_cfg |-> args.ind_cfg,
                 at |-> [i \in Calls |-> "idle"],
                 reports |-> [i \in Calls |-> NoReport],
                 calls |-> 0, finished |-> 0, overlapped |-> FALSE]
    /\ IdleNormalize /\ IdleFlatten /\ IdleMatch /\ IdleAts

\* a request calls ats_score with the preloaded objects, not with copies
BeginScore(i) ==
    /\ result.at[i] = "idle"
    /\ result.calls < MaxCalls
    /\ result' = [result EXCEPT !.at[i] = "scoring",
                                !.calls = @ + 1,
                                !.overlapped = @ \/ UnderWay(result.at) # {}]
    /\ pc' = PcOf(result'.at)
    /\ UNCHANGED <<args, normVars, flatVars, matchVars, atsVars>>

\* the call returns its report; the objects are as the call leaves them
FinishScore(i) ==
    /\ result.at[i] = "scoring"
    /\ LET doc == args.docs[i]
           after == ConfigAfterScore(doc.cv_text, doc.industry, result.lang_cfg,
                                     result.prof_cfg, result.ind_cfg)
       IN  result' = [result EXCEPT
                         !.at[i] = "idle",
                         !.finished = @ + 1,
                         !.reports[i] = ats_score(doc.cv_text, doc.industry, result.lang_cfg,
                                                  result.prof_cfg, result.ind_cfg),
                         !.lang_cfg = after.lang_cfg,
                         !.prof_cfg = after.prof_cfg,
                         !.ind_cfg = after.ind_cfg]
    /\ pc' = PcOf(result'.at)
    /\ UNCHANGED <<args, normVars, flatVars, matchVars, atsVars>>

NextShared == \E i \in Calls : BeginScore(i) \/ FinishScore(i)

SpecShared == InitShared /\ [][NextShared]_vars

-----------------------------------------------------------------------------
(* _extract_experience on sections with a second heading                   *)

\* between the two runs of ranges: nothing, or the heading of another section
RangeBreaks == {<<>>,
     <<"S", "k", "i", "l", "l", "s", "LF", "G", "o", "LF">>}

\* before the second run: nothing, or a second heading of the section
SecondHeadings == {<<>>,
     <<"E", "m", "p", "l", "o", "y", "m", "e", "n", "t", " ", "H", "i", "s", "t", "o", "r", "y", "LF">>}

RangeDocs ==
    [heading : {<<"W", "o", "r", "k", " ", "E", "x", "p", "e", "r", "i", "e", "n", "c", "e", "LF">>},
     ranges : SeqsUpTo(DOMAIN RangeForms, 1),
     break : RangeBreaks, second : SecondHeadings,
     more : SeqsUpTo(DOMAIN RangeForms, 1)]

RECURSIVE RangeLines(_, _)
\* the ranges from the i-th on, one to a line
RangeLines(ranges, i) ==
    IF i > Len(ranges) THEN <<>>
    ELSE RangeForms[ranges[i]].txt \o <<"LF">> \o RangeLines(ranges, i + 1)

RenderRanges(doc) ==
    doc.heading \o RangeLines(doc.ranges, 1) \o doc.break \o doc.second
    \o RangeLines(doc.more, 1)

RangeInputs == {[text |-> RenderRanges(d), now |-> n, doc |-> d] : d \in RangeDocs, n \in Nows}

InitRanges ==
    /\ pc = "start"
    /\ args \in RangeInputs
    /\ result = NoResult
    /\ IdleNormalize /\ IdleFlatten /\ IdleMatch /\ IdleAts

SumRanges ==
    /\ pc = "start"
    /\ result' = extract_experience(args.text, args.now)
                    @@ [months |-> SumBlocks(args.text, ExpHeadings(args.text), args.now)]
    /\ pc' = "summed"
    /\ UNCHANGED <<args, normVars, flatVars, matchVars, atsVars>>

NextRanges == SumRanges

SpecRanges == InitRanges /\ [][NextRanges]_vars

\* the ranges of the document that stand under a heading of the section
UnderHeading(doc) ==
    doc.ranges \o (IF doc.break = <<>> \/ doc.second # <<>> THEN doc.more ELSE <<>>)

\* C26: every range written in the text adds its months to the total at most
\* once: not once for every pattern that matches it, and not once for every
\* heading of the section it stands under.
C26_RangeCountedOnce ==
    pc = "summed" =>
        /\ result.months <= WrittenTotal(UnderHeading(args.doc), 1, args.now)
        /\ "years" \in DOMAIN result =>
              result.years <= WrittenTotal(UnderHeading(args.doc), 1, args.now) \div MonthsInYear

\* what holds: ranges with both dates written are counted once when a heading
\* of another section stands between the two headings of the section, or
\* when there is one heading only
C26_CountedOnceWhenApart ==
    (/\ pc = "summed"
     /\ \A i \in DOMAIN UnderHeading(args.doc) : ~RangeForms[UnderHeading(args.doc)[i]].open
     /\ (args.doc.second = <<>> \/ args.doc.break # <<>>)) =>
        result.months = WrittenTotal(UnderHeading(args.doc), 1, args.now)

-----------------------------------------------------------------------------
(* the bounds of the score of ats_score                                    *)

\* 15 + 20 + 10 + 10 + 10 + 5
MaxPoints == KeywordsCap + IndustryCap + ActionCap + QuantPointsCap + ReadabilityPoints + BuzzCap

\* min(10, ...) + min(5, ...)
MaxPenalty == GrammarPenaltyCap + WeakPenaltyCap

\* calc_readability has two warnings to give
MaxWarnings == Cardinality({"Average sentence length is high", "Too many complex words"})

BreakdownSum(b) ==
    b.keywords + b.industry_keywords + b.action_verbs + b.quantification
    + b.readability + b.buzzwords

\* C27: the score of ats_score is at most 70, it is at most the sum of the
\* values of the breakdown, that sum is at most 15 above the score, and the
\* readability value of the breakdown is 8, 9 or 10.
C27_ScoreBounds ==
    Scored =>
        /\ report.ats_score <= MaxPoints
        /\ report.ats_score <= BreakdownSum(report.breakdown)
        /\ BreakdownSum(report.breakdown) - report.ats_score <= MaxPenalty
        /\ report.breakdown.readability \in (ReadabilityPoints - MaxWarnings)..ReadabilityPoints

\* the whole penalty was taken: the score is 15 below the sum, with both
\* warnings of calc_readability
C27_Witness ==
    /\ Scored
    /\ BreakdownSum(report.breakdown) - report.ats_score = MaxPenalty
    /\ report.breakdown.readability = ReadabilityPoints - MaxWarnings

\* every cap is reached and nothing is taken: the score is 70
C27_WitnessFull ==
    /\ Scored
    /\ report.ats_score = MaxPoints

-----------------------------------------------------------------------------
(* upload_resume: one request, from validation to the response             *)

\* allowed_types
AllowedTypes ==
    {"application/pdf",
     "application/vnd.openxmlformats-officedocument.wordprocessingml.document",
     "text/plain"}

\* the outcome of a call into a collaborator
Outcomes == {"ok", "raises"}

UploadTexts ==
    {<<"W", "o", "r", "k", " ", "E", "x", "p", "e", "r", "i", "e", "n", "c", "e", "LF", "J", "a", "n", " ", "2", "0", "2", "0", " ", "-", " ", "D", "e", "c", " ", "2", "0", "2", "2", "LF", "+", "1", " ", "5", "5", "5", " ", "1", "2", "3", " ", "4", "5", "6", "7", "LF">>,
     <<"n", "i", "n", "j", "a">>}

\* a request and what its collaborators will do: the storage and the table
\* of Supabase (when configured), the file system, python-docx, the model
UploadRequests ==
    [content_type : AllowedTypes \cup {"image/png"},
     too_large : BOOLEAN, filename_ok : BOOLEAN,
     supabase : BOOLEAN, write : Outcomes, storage : Outcomes, docx : Outcomes,
     insert : Outcomes, llm : {"unavailable", "raises", "grammar", "plain"},
     text : UploadTexts]

\* the fields of the profile that the steps modelled here do not compute
UploadData == CHOOSE x \in ProfileData : x.email = None

UploadNow == [year |-> 2026, month |-> 11]

UploadEnv(request) == [llm |-> request.llm, email_ok |-> TRUE, now |-> UploadNow]

HttpError(status_code, detail) == [status_code |-> status_code, detail |-> detail]

InitRequest ==
    /\ pc = "start"
    /\ args \in UploadRequests
    /\ result = [temp_file_path |-> "None", disk |-> {}, cv_file_url |-> "None",
                 text |-> <<>>, extracted |-> FALSE, ats_result |-> NoResult,
                 advanced_report |-> NoReport, advanced |-> "not called",
                 rows |-> 0, response |-> NoResult]
    /\ IdleNormalize /\ IdleFlatten /\ IdleMatch /\ IdleAts

\* the three validations, before the try: a 400 leaves the handler at once
ValidateUpload ==
    /\ pc = "start"
    /\ IF args.content_type \notin AllowedTypes
       THEN /\ result' = [result EXCEPT !.response = HttpError(400, "Invalid file type")]
            /\ pc' = "done"
       ELSE IF args.too_large
       THEN /\ result' = [result EXCEPT !.response = HttpError(400, "File size")]
            /\ pc' = "done"
       ELSE IF ~args.filename_ok
       THEN /\ result' = [result EXCEPT !.response = HttpError(400, "Invalid filename")]
            /\ pc' = "done"
       ELSE /\ result' = result
            /\ pc' = "validated"
    /\ UNCHANGED <<args, normVars, flatVars, matchVars, atsVars>>

\* NamedTemporaryFile(delete=False) makes the file; the path is kept only
\* after the write
SaveTemp ==
    /\ pc = "validated"
    /\ IF args.write = "ok"
       THEN /\ result' = [result EXCEPT !.disk = @ \cup {"upload.tmp"},
                                        !.temp_file_path = "upload.tmp"]
            /\ pc' = "saved"
       ELSE /\ result' = [result EXCEPT !.disk = @ \cup {"upload.tmp"}]
            /\ pc' = "failed"
    /\ UNCHANGED <<args, normVars, flatVars, matchVars, atsVars>>

\* a variant without the try around the upload to the storage
StoreFile_Unguarded ==
    /\ pc = "saved"
    /\ IF args.supabase /\ args.storage = "raises"
       THEN /\ result' = result
            /\ pc' = "failed"
       ELSE /\ result' = [result EXCEPT !.cv_file_url =
                             IF args.supabase THEN "public url" ELSE "None"]
            /\ pc' = "stored"
    /\ UNCHANGED <<args, normVars, flatVars, matchVars, atsVars>>

\* the upload to the storage, when Supabase is configured: a failure is
\* logged and the URL stays None
StoreFile ==
    /\ pc = "saved"
    /\ result' = [result EXCEPT !.cv_file_url =
                     IF args.supabase /\ args.storage = "ok" THEN "public url" ELSE "None"]
    /\ pc' = "stored"
    /\ UNCHANGED <<args, normVars, flatVars, matchVars, atsVars>>

\* the text of the file: the readers of PDF and of plain text catch what
\* their libraries raise, the reader of DOCX does not
ExtractText ==
    /\ pc = "stored"
    /\ IF args.content_type \notin {"application/pdf", "text/plain"} /\ args.docx = "raises"
       THEN /\ result' = result
            /\ pc' = "failed"
       ELSE /\ result' = [result EXCEPT !.text = args.text, !.extracted = TRUE]
            /\ pc' = "extracted"
    /\ UNCHANGED <<args, normVars, flatVars, matchVars, atsVars>>

\* parse_resume_text, then calculate_ats_score with its advisory call
ScoreResume ==
    /\ pc = "extracted"
    /\ result' = [result EXCEPT !.ats_result =
                     calculate_ats_score(parse_resume_text(result.text, UploadNow, UploadData),
                                         result.text, UploadEnv(args))]
    /\ pc' = "scored"
    /\ UNCHANGED <<args, normVars, flatVars, matchVars, atsVars>>

\* the advanced report: whatever the call raises leaves None
AdvancedScore ==
    /\ pc = "scored"
    /\ LET call == advanced_ats_score(<<result.text, <<"x">>, EmptyDoc, EmptyDoc,
                                        DictNode(<<>>, <<>>), args.llm>>)
       IN  result' = [result EXCEPT
                         !.advanced = IF "raised" \in DOMAIN call THEN "raised" ELSE "returned",
                         !.advanced_report = IF "raised" \in DOMAIN call THEN NoReport
                                             ELSE call.returned]
    /\ pc' = "advanced"
    /\ UNCHANGED <<args, normVars, flatVars, matchVars, atsVars>>

\* the row of the table, when Supabase is configured: a failure is logged
SaveRow ==
    /\ pc = "advanced"
    /\ result' = [result EXCEPT !.rows =
                     IF args.supabase /\ args.insert = "ok" THEN @ + 1 ELSE @]
    /\ pc' = "inserted"
    /\ UNCHANGED <<args, normVars, flatVars, matchVars, atsVars>>

\* return JSONResponse(...)
Respond ==
    /\ pc = "inserted"
    /\ result' = [result EXCEPT !.response =
                     [status_code |-> 200, success |-> TRUE,
                      ats_score |-> result.ats_result.total_score,
                      score_breakdown |-> result.ats_result.breakdown,
                      issues |-> result.ats_result.issues,
                      recommendations |-> result.ats_result.recommendations,
                      advanced_report |-> result.advanced_report]]
    /\ pc' = "leaving"
    /\ UNCHANGED <<args, normVars, flatVars, matchVars, atsVars>>

\* except Exception: the request fails with a 500
FailUpload ==
    /\ pc = "failed"
    /\ result' = [result EXCEPT !.response = HttpError(500, "Internal server error")]
    /\ pc' = "leaving"
    /\ UNCHANGED <<args, normVars, flatVars, matchVars, atsVars>>

\* finally: the file at temp_file_path is unlinked, when there is a path
UnlinkTemp ==
    /\ pc = "leaving"
    /\ result' = [result EXCEPT !.disk =
                     IF result.temp_file_path # "None" THEN @ \ {result.temp_file_path} ELSE @]
    /\ pc' = "done"
    /\ UNCHANGED <<args, normVars, flatVars, matchVars, atsVars>>

NextRequest ==
    \/ ValidateUpload \/ SaveTemp \/ StoreFile \/ ExtractText \/ ScoreResume
    \/ AdvancedScore \/ SaveRow \/ Respond \/ FailUpload \/ UnlinkTemp

SpecRequest == InitRequest /\ [][NextRequest]_vars

\* what calculate_ats_score gives for the text of the request
BasicResult ==
    calculate_ats_score(parse_resume_text(args.text, UploadNow, UploadData),
                        args.text, UploadEnv(args))

\* the request passes the validations, its file is written and its text can
\* be read
Readable ==
    /\ args.content_type \in AllowedTypes
    /\ ~args.too_large
    /\ args.filename_ok
    /\ args.write = "ok"
    /\ args.content_type \in {"application/pdf", "text/plain"} \/ args.docx = "ok"

\* C28: once the file has passed the validations and its text is extracted,
\* a failure of the storage upload, of the advisory call inside
\* calculate_ats_score, of the advanced ats_score call or of the insert, in
\* any combination, does not fail the request: the response is a success
\* with the basic score, breakdown and issues, and only the failed part is
\* missing (no URL, no advanced report, no row).
C28_FailuresDoNotFailRequest ==
    (pc = "done" /\ Readable) =>
        /\ result.extracted
        /\ result.response.status_code = 200
        /\ result.response.success
        /\ result.response.ats_score = BasicResult.total_score
        /\ result.response.score_breakdown = BasicResult.breakdown
        /\ result.response.issues = BasicResult.issues
        /\ result.advanced = "raised" => result.response.advanced_report = NoReport
        /\ (args.supabase /\ args.storage = "ok") => result.cv_file_url # "None"
        /\ (args.supabase /\ args.insert = "ok") => result.rows = 1

\* all four failed in one request, and the response is the success with the
\* issues of the basic score
C28_Witness ==
    /\ pc = "done"
    /\ result.extracted
    /\ args.supabase /\ args.storage = "raises" /\ args.insert = "raises"
    /\ args.llm = "raises"
    /\ result.advanced = "raised"
    /\ result.response.status_code = 200
    /\ result.response.issues # <<>>
    /\ result.cv_file_url = "None" /\ result.rows = 0

-----------------------------------------------------------------------------
(* improve_cv and get_cv_templates: one request each                       *)

\* the classes an exception is an instance of
ExceptionBases(exc) ==
    IF exc = "HTTPException" THEN {"HTTPException", "Exception"} ELSE {exc, "Exception"}

\* the first except clause that catches exc, "None" when none does
CaughtBy(clauses, exc) ==
    LET hits == {k \in DOMAIN clauses : clauses[k] \in ExceptionBases(exc)}
    IN  IF hits = {} THEN "None" ELSE clauses[Least(hits)]

\* except HTTPException: raise / except Exception: raise HTTPException(500)
ImproveClauses == <<"HTTPException", "Exception">>

\* except Exception: raise HTTPException(500)
TemplatesClauses == <<"Exception">>

\* what leaves a try whose clauses re-raise an HTTPException as it is and
\* turn everything else into a 500 with the detail of the handler
Raised(clauses, exc, error, detail) ==
    IF CaughtBy(clauses, exc) = "HTTPException" \/ CaughtBy(clauses, exc) = "None"
    THEN error
    ELSE HttpError(500, detail)

Unavailable == HttpError(503, "AI model not available")

\* tempfile.mkdtemp() of the improver, and the directory of the templates
ImproverDir == "/tmp/tmpdir"

TemplatesDir == "/tmp/cv_templates"

File(dir, name) == [dir |-> dir, name |-> name]

IsPdf(f) == f.name \in {"cv_template.pdf", "cv_fallback.pdf"}

\* a request and what its collaborators will do: the model gives a text, an
\* empty text or raises; each generator saves its PDF or fails
ImproveRequests ==
    [endpoint : {"improve-cv", "cv-templates"}, model : Models,
     gemini : {"text", "empty", "raises"},
     template : {"saved", "fails"}, fallback : {"saved", "fails"},
     supabase : BOOLEAN, storage : Outcomes]

InitImprove ==
    /\ pc = "start"
    /\ args \in ImproveRequests
    /\ result = [cv_improver |-> "None", improvers |-> 0, disk |-> {},
                 pdf_path |-> NoResult, cleanups |-> 0, response |-> NoResult]
    /\ IdleNormalize /\ IdleFlatten /\ IdleMatch /\ IdleAts

\* improve_cv: the model is tested before the try
CheckModel ==
    /\ pc = "start"
    /\ args.endpoint = "improve-cv"
    /\ IF args.model = "None"
       THEN /\ result' = [result EXCEPT !.response = Unavailable]
            /\ pc' = "done"
       ELSE /\ result' = result
            /\ pc' = "checked"
    /\ UNCHANGED <<args, normVars, flatVars, matchVars, atsVars>>

\* cv_improver = CVImprover(model): the improver makes its directory
CreateImprover ==
    /\ pc = "checked"
    /\ result' = [result EXCEPT !.cv_improver = "CVImprover",
                                !.improvers = @ + 1,
                                !.disk = @ \cup {File(ImproverDir, "")}]
    /\ pc' = "created"
    /\ UNCHANGED <<args, normVars, flatVars, matchVars, atsVars>>

\* CVImprover.improve_cv up to the improved text: without a text the result
\* is an error response, which the handler raises as a 500
GetImprovedText ==
    /\ pc = "created"
    /\ IF args.gemini = "text"
       THEN /\ result' = result
            /\ pc' = "improved"
       ELSE /\ result' = [result EXCEPT !.response =
                             Raised(ImproveClauses, "HTTPException",
                                    HttpError(500, "Failed to improve CV text"),
                                    "Internal server error")]
            /\ pc' = "leaving"
    /\ UNCHANGED <<args, normVars, flatVars, matchVars, atsVars>>

\* the template engine saves its PDF in /tmp/cv_templates
TemplatePdf ==
    /\ pc = "improved"
    /\ IF args.template = "saved"
       THEN /\ result' = [result EXCEPT
                             !.disk = @ \cup {File(TemplatesDir, "cv_template.pdf")},
                             !.pdf_path = File(TemplatesDir, "cv_template.pdf")]
            /\ pc' = "generated"
       ELSE /\ result' = result
            /\ pc' = "fallback"
    /\ UNCHANGED <<args, normVars, flatVars, matchVars, atsVars>>

\* the fallback generator saves its PDF in the directory of the improver
FallbackPdf ==
    /\ pc = "fallback"
    /\ IF args.fallback = "saved"
       THEN /\ result' = [result EXCEPT
                             !.disk = @ \cup {File(ImproverDir, "cv_fallback.pdf")},
                             !.pdf_path = File(ImproverDir, "cv_fallback.pdf")]
            /\ pc' = "generated"
       ELSE /\ result' = [result EXCEPT !.response =
                             Raised(ImproveClauses, "HTTPException",
                                    HttpError(500, "Failed to generate PDF"),
                                    "Internal server error")]
            /\ pc' = "leaving"
    /\ UNCHANGED <<args, normVars, flatVars, matchVars, atsVars>>

\* the PDF is uploaded, or sent as base64 when there is no storage or the
\* upload fails; the response is the success
DeliverPdf ==
    /\ pc = "generated"
    /\ result' = [result EXCEPT !.response =
                     [status_code |-> 200, success |-> TRUE,
                      pdf_download_url |->
                          IF args.supabase /\ args.storage = "ok" THEN "public url" ELSE "None",
                      pdf_data_base64 |->
                          IF args.supabase /\ args.storage = "ok" THEN "None" ELSE "base64"]]
    /\ pc' = "leaving"
    /\ UNCHANGED <<args, normVars, flatVars, matchVars, atsVars>>

\* finally: cv_improver.cleanup() removes the directory of the improver
Cleanup ==
    /\ pc = "leaving"
    /\ result' = [result EXCEPT
                     !.cleanups = IF result.cv_improver # "None" THEN @ + 1 ELSE @,
                     !.disk = IF result.cv_improver # "None"
                              THEN {f \in @ : f.dir # ImproverDir} ELSE @]
    /\ pc' = "done"
    /\ UNCHANGED <<args, normVars, flatVars, matchVars, atsVars>>

\* get_cv_templates: the model is tested inside the try, whose only clause
\* is except Exception; with a model an improver is made and never cleaned
GetTemplates ==
    /\ pc = "start"
    /\ args.endpoint = "cv-templates"
    /\ IF args.model = "None"
       THEN result' = [result EXCEPT !.response =
                          Raised(TemplatesClauses, "HTTPException", Unavailable,
                                 "Failed to get CV templates")]
       ELSE result' = [result EXCEPT !.improvers = @ + 1,
                                     !.disk = @ \cup {File(ImproverDir, "")},
                                     !.response = [status_code |-> 200, success |-> TRUE]]
    /\ pc' = "done"
    /\ UNCHANGED <<args, normVars, flatVars, matchVars, atsVars>>

NextImprove ==
    \/ CheckModel \/ CreateImprover \/ GetImprovedText \/ TemplatePdf \/ FallbackPdf
    \/ DeliverPdf \/ Cleanup \/ GetTemplates

SpecImprove == InitImprove /\ [][NextImprove]_vars

\* C29: temporary files never outlive a request: in improve_cv, cleanup is
\* called on every path after the improver was made, and after it no PDF
\* generated for the request is on disk, whether the template engine or the
\* fallback generator made it.
C29_NoPdfOutlivesRequest ==
    (pc = "done" /\ args.endpoint = "improve-cv" /\ result.improvers > 0) =>
        /\ result.cleanups = 1
        /\ \A f \in result.disk : ~IsPdf(f)

\* what holds: cleanup is called on every path, and the PDF of the fallback
\* generator and the directory of the improver are gone after it
C29_FallbackPdfRemoved ==
    (pc = "done" /\ args.endpoint = "improve-cv" /\ result.improvers > 0) =>
        /\ result.cleanups = 1
        /\ \A f \in result.disk : f.dir # ImproverDir

\* C30: with the model unavailable, POST /improve-cv and GET /cv-templates
\* both answer 503 'AI model not available', and no CVImprover is made.
C30_Unavailable503 ==
    (pc = "done" /\ args.model = "None") =>
        /\ result.response = Unavailable
        /\ result.improvers = 0

\* what holds: POST /improve-cv answers 503, GET /cv-templates answers 500
\* 'Failed to get CV templates', and neither makes a CVImprover
C30_Unavailable503Or500 ==
    (pc = "done" /\ args.model = "None") =>
        /\ result.response =
              IF args.endpoint = "improve-cv" THEN Unavailable
              ELSE HttpError(500, "Failed to get CV templates")
        /\ result.improvers = 0

=============================================================================
